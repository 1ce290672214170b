------------------------- MODULE Connections_proofs -------------------------
(***************************************************************************)
(* What the program keeps of its connections: the tokens of MCP servers,   *)
(* the credentials of the providers, the plugins and the servers, for any  *)
(* numbers of programs, callers, sites, plugins and operations.            *)
(***************************************************************************)
EXTENDS MCConnections, FiniteSetTheorems, SequenceTheorems, WellFoundedInduction, TLAPS

-----------------------------------------------------------------------------
(* The broker of tokens. The caller that holds the mutex is the one at     *)
(* work; what it carries is what the file has, until it is told otherwise; *)
(* a number belongs to one site; and the file is behind what was granted   *)
(* only while the holder is about to write it.                             *)
Working == {"load", "refresh", "callback", "exchange", "save", "revoke", "delete"}
Ops == [what : {"idle", "acquire", "quietly", "revoke"}, site : Sites \cup {"none"},
        at : {"idle", "lock", "done"} \cup Working, token : Tokens,
        result : {"none", "token", "reauth", "error", "revoked"}]
Numbers(s) == {disk[s].access, disk[s].refresh, grant[s]} \ {0}
Kept(s) == disk[s].refresh = grant[s] /\ (grant[s] # 0 => grant[s] \in honoured)
Writing(c, s) == op[c].at \in {"save", "delete"} /\ op[c].site = s

BrokerTypes ==
  /\ disk \in [Sites -> Tokens] /\ op \in [Callers -> Ops] /\ mutex \in Callers \cup {"nobody"}
  /\ issued \in 0..MaxTokens /\ fresh \subseteq 1..issued /\ honoured \subseteq 1..issued
  /\ grant \in [Sites -> 0..MaxTokens] /\ lost \subseteq Sites
  /\ revoked \subseteq 1..issued /\ undeleted \subseteq 1..issued
LockInv == \A c \in Callers : op[c].at \in Working <=> mutex = c
DiskInv ==
  /\ \A s \in Sites : (disk[s] # NoToken => disk[s].site = s) /\ Numbers(s) \subseteq 1..issued
  /\ \A s, t \in Sites : s # t => Numbers(s) \cap Numbers(t) = {}
AtWork(c) ==
  /\ op[c].result = "none" /\ op[c].site \in Sites
  /\ op[c].at \in {"callback", "exchange"} => op[c].token = NoToken
  /\ op[c].at \in {"refresh", "revoke", "delete"} => op[c].token = disk[op[c].site] /\ op[c].token # NoToken
  /\ op[c].at = "save" =>
       /\ op[c].token.site = op[c].site /\ op[c].token.access \in (1..issued) \ revoked
       /\ \A s \in Sites \ {op[c].site} : op[c].token.access \notin Numbers(s)
       /\ op[c].token.refresh = grant[op[c].site]
       /\ grant[op[c].site] # 0 => grant[op[c].site] \in honoured
HolderInv == \A c \in Callers : op[c].at \in Working \cup {"lock"} =>
  op[c].result = "none" /\ op[c].site \in Sites /\ (op[c].at \in Working => AtWork(c))
RevokedInv == \A s \in Sites : disk[s].access \in TakenBack => \E c \in Callers : op[c].at = "delete" /\ op[c].site = s
KeptInv == \A s \in Sites \ lost : Kept(s) \/ \E c \in Callers : Writing(c, s)
BrokerInv == BrokerTypes /\ LockInv /\ DiskInv /\ HolderInv /\ RevokedInv /\ KeptInv

LEMMA TokenFields ==
  /\ NoToken \in Tokens /\ NoToken.access = 0 /\ NoToken.refresh = 0
  /\ \A t \in Tokens : t.access \in 0..MaxTokens /\ t.refresh \in 0..MaxTokens
                       /\ (t # NoToken => t.site \in Sites /\ t.access # 0)
BY OAuthAssumption DEF Tokens, NoToken

LEMMA BrokerInitInv == OAuthInit => BrokerInv
<1> SUFFICES ASSUME OAuthInit PROVE BrokerInv
  OBVIOUS
<1>1. Idle \in Ops
  BY TokenFields DEF Idle, Ops
<1>2. BrokerTypes
  <2>1. disk \in [Sites -> Tokens]
    BY TokenFields DEF OAuthInit
  <2>2. op \in [Callers -> Ops]
    BY <1>1 DEF OAuthInit
  <2>3. grant \in [Sites -> 0..MaxTokens] /\ issued \in 0..MaxTokens
    BY OAuthAssumption DEF OAuthInit
  <2> QED
    BY <2>1, <2>2, <2>3 DEF OAuthInit, BrokerTypes
<1>3. \A c \in Callers : op[c].at = "idle"
  BY DEF OAuthInit, Idle
<1>4. \A s \in Sites : disk[s] = NoToken /\ grant[s] = 0 /\ Numbers(s) = {}
  BY TokenFields DEF OAuthInit, Numbers
<1>5. LockInv
  BY <1>3, OAuthAssumption DEF LockInv, OAuthInit, Working
<1>6. HolderInv
  BY <1>3 DEF HolderInv, Working
<1>7. DiskInv
  BY <1>4 DEF DiskInv
<1>8. KeptInv /\ RevokedInv
  BY <1>4, TokenFields DEF OAuthInit, KeptInv, RevokedInv, TakenBack, Kept
<1> QED
  BY <1>2, <1>5, <1>6, <1>7, <1>8 DEF BrokerInv

(* What GoOn and Return make of the operations. *)
LEMMA GoOnIs ==
  ASSUME op \in [Callers -> Ops], NEW c \in Callers, NEW at \in Working, NEW token \in Tokens, GoOn(c, at, token)
  PROVE  /\ op' \in [Callers -> Ops] /\ mutex' = mutex
         /\ op'[c].at = at /\ op'[c].token = token /\ op'[c].site = op[c].site /\ op'[c].what = op[c].what
         /\ op'[c].result = op[c].result
         /\ \A d \in Callers \ {c} : op'[d] = op[d]
<1> DEFINE one == [op EXCEPT ![c].at = at]
<1>1. one \in [Callers -> Ops] /\ one[c].at = at /\ one[c].site = op[c].site /\ one[c].what = op[c].what
      /\ one[c].result = op[c].result /\ \A d \in Callers \ {c} : one[d] = op[d]
  BY DEF Ops
<1>2. op' = [one EXCEPT ![c].token = token] /\ mutex' = mutex
  BY DEF GoOn
<1> HIDE DEF one
<1> QED
  BY <1>1, <1>2 DEF Ops

LEMMA ReturnIs ==
  ASSUME op \in [Callers -> Ops], NEW c \in Callers, NEW result \in {"token", "reauth", "error", "revoked"},
         NEW token \in Tokens, Return(c, result, token)
  PROVE  /\ op' \in [Callers -> Ops] /\ mutex' = "nobody"
         /\ op'[c].at = "done" /\ op'[c].token = token /\ op'[c].site = op[c].site /\ op'[c].result = result
         /\ \A d \in Callers \ {c} : op'[d] = op[d]
<1> DEFINE one == [op EXCEPT ![c].at = "done"]
           two == [one EXCEPT ![c].result = result]
<1>1. one \in [Callers -> Ops] /\ one[c].at = "done" /\ one[c].site = op[c].site
      /\ \A d \in Callers \ {c} : one[d] = op[d]
  BY DEF Ops
<1>2. op' = [two EXCEPT ![c].token = token] /\ mutex' = "nobody"
  BY DEF Return
<1> HIDE DEF one
<1>3. two \in [Callers -> Ops] /\ two[c].at = "done" /\ two[c].site = op[c].site /\ two[c].result = result
      /\ \A d \in Callers \ {c} : two[d] = op[d]
  BY <1>1 DEF Ops
<1> HIDE DEF two
<1> QED
  BY <1>2, <1>3 DEF Ops

(* A step of the holder, or of one that waits, that touches nothing but the *)
(* operations.                                                              *)
LEMMA ControlStep ==
  ASSUME BrokerInv, NEW c \in Callers, op' \in [Callers -> Ops], mutex' \in Callers \cup {"nobody"},
         \A d \in Callers \ {c} : op'[d] = op[d],
         op[c].at \notin {"save", "delete"}, op'[c].at \notin {"save", "delete"},
         LockInv', op'[c].at \in Working \cup {"lock"} => op'[c].result = "none" /\ op'[c].site \in Sites,
         op'[c].at \in {"callback", "exchange"} => op'[c].token = NoToken,
         op'[c].at \in {"refresh", "revoke"} => op'[c].token = disk[op'[c].site] /\ op'[c].token # NoToken,
         UNCHANGED <<disk, issued, fresh, honoured, grant, lost, revoked, undeleted>>
  PROVE  BrokerInv'
<1>1. BrokerTypes'
  BY DEF BrokerInv, BrokerTypes
<1>2. DiskInv'
  BY DEF BrokerInv, DiskInv, Numbers
<1>3. HolderInv'
  <2>1. op'[c].at \in Working => AtWork(c)'
    BY DEF AtWork, Working
  <2>2. ASSUME NEW d \in Callers \ {c} PROVE AtWork(d)' <=> AtWork(d)
    BY DEF AtWork, Numbers
  <2> QED
    BY <2>1, <2>2 DEF BrokerInv, HolderInv
<1>4. \A d \in Callers, s \in Sites : (Writing(d, s) => Writing(d, s)')
                                     /\ (op[d].at = "delete" /\ op[d].site = s => op'[d].at = "delete" /\ op'[d].site = s)
  BY DEF Writing
<1>5. RevokedInv'
  BY <1>4 DEF BrokerInv, RevokedInv, TakenBack
<1>6. KeptInv'
  BY <1>4 DEF BrokerInv, KeptInv, Kept
<1> QED
  BY <1>1, <1>2, <1>3, <1>5, <1>6 DEF BrokerInv

(* Who goes on keeps the mutex, and who returns gives it up. *)
LEMMA LockKept ==
  ASSUME BrokerInv, NEW c \in Callers, op[c].at \in Working,
         \A d \in Callers \ {c} : op'[d] = op[d],
         \/ op'[c].at \in Working /\ mutex' = mutex
         \/ op'[c].at \notin Working /\ mutex' = "nobody"
  PROVE  LockInv' /\ mutex = c
<1>1. mutex = c
  BY DEF BrokerInv, LockInv
<1> QED
  BY <1>1, OAuthAssumption DEF BrokerInv, LockInv

LEMMA Outsiders ==
  ASSUME BrokerInv, NEW c \in Callers, op[c].at \in Working
  PROVE  \A d \in Callers \ {c} : op[d].at \notin Working
BY DEF BrokerInv, LockInv

(* A step that ends in GoOn or Return, and touches nothing else. *)
LEMMA GoOnStep ==
  ASSUME BrokerInv, NEW c \in Callers, op[c].at \in Working \ {"save", "delete"},
         NEW at \in {"refresh", "callback", "exchange", "revoke"}, NEW token \in Tokens, GoOn(c, at, token),
         at \in {"callback", "exchange"} => token = NoToken,
         at \in {"refresh", "revoke"} => token = disk[op[c].site] /\ token # NoToken,
         UNCHANGED <<disk, issued, fresh, honoured, grant, lost, revoked, undeleted>>
  PROVE  BrokerInv'
<1>0. op \in [Callers -> Ops] /\ op[c].result = "none" /\ op[c].site \in Sites /\ at \in Working
  BY DEF BrokerInv, BrokerTypes, HolderInv, Working
<1>1. /\ op' \in [Callers -> Ops] /\ mutex' = mutex
      /\ op'[c].at = at /\ op'[c].token = token /\ op'[c].site = op[c].site
      /\ op'[c].result = op[c].result
      /\ \A d \in Callers \ {c} : op'[d] = op[d]
  BY <1>0, GoOnIs
<1>2. LockInv' /\ mutex' \in Callers \cup {"nobody"}
  BY <1>0, <1>1, LockKept DEF BrokerInv, BrokerTypes
<1> QED
  BY <1>0, <1>1, <1>2, ControlStep

LEMMA ReturnStep ==
  ASSUME BrokerInv, NEW c \in Callers, op[c].at \in Working \ {"save", "delete"},
         NEW result \in {"token", "reauth", "error", "revoked"}, NEW token \in Tokens, Return(c, result, token),
         UNCHANGED <<disk, issued, fresh, honoured, grant, lost, revoked, undeleted>>
  PROVE  BrokerInv'
<1>0. op \in [Callers -> Ops]
  BY DEF BrokerInv, BrokerTypes
<1>1. /\ op' \in [Callers -> Ops] /\ mutex' = "nobody"
      /\ op'[c].at = "done" /\ \A d \in Callers \ {c} : op'[d] = op[d]
  BY <1>0, ReturnIs
<1>2. LockInv'
  BY <1>1, LockKept DEF Working
<1> QED
  BY <1>1, <1>2, ControlStep DEF Working

(* A new token: its number is nobody's yet. *)
LEMMA IssueIs ==
  ASSUME BrokerTypes, NEW c \in Callers, op[c].site \in Sites, NEW rotated \in BOOLEAN, Issue(c, rotated)
  PROVE  /\ issued < MaxTokens /\ issued' = issued + 1 /\ fresh' = fresh \cup {issued + 1}
         /\ honoured' = IF rotated THEN (honoured \ {op[c].token.refresh}) \cup {issued + 1} ELSE honoured
         /\ op' \in [Callers -> Ops] /\ \A d \in Callers \ {c} : op'[d] = op[d]
         /\ op'[c].at = "save" /\ op'[c].site = op[c].site /\ op'[c].result = op[c].result
         /\ op'[c].token = [site |-> op[c].site, access |-> issued + 1,
                            refresh |-> IF rotated THEN issued + 1 ELSE op[c].token.refresh]
<1> DEFINE new == [site |-> op[c].site, access |-> issued + 1,
                   refresh |-> IF rotated THEN issued + 1 ELSE op[c].token.refresh]
<1>s. PICK one : one = [op EXCEPT ![c].at = "save"]
  OBVIOUS
<1>0. op \in [Callers -> Ops] /\ issued \in 0..MaxTokens /\ MaxTokens \in Nat
  BY OAuthAssumption DEF BrokerTypes
<1>1. /\ issued < MaxTokens /\ issued' = issued + 1 /\ fresh' = fresh \cup {issued + 1}
      /\ honoured' = IF rotated THEN (honoured \ {op[c].token.refresh}) \cup {issued + 1} ELSE honoured
      /\ op' = [one EXCEPT ![c].token = new]
  BY <1>s DEF Issue
<1>2. op[c].token.refresh \in 0..MaxTokens
  BY <1>0, TokenFields DEF Ops
<1>3. new \in Tokens
  BY <1>0, <1>1, <1>2 DEF Tokens
<1>4. one \in [Callers -> Ops] /\ one[c].at = "save" /\ one[c].site = op[c].site /\ one[c].result = op[c].result
      /\ \A d \in Callers \ {c} : one[d] = op[d]
  BY <1>0, <1>s DEF Ops, Working
<1>5. \E token \in Tokens : token = new
  BY <1>3
<1>6. PICK token \in Tokens : token = new
  BY <1>5
<1>7. op' \in [Callers -> Ops] /\ op'[c].at = "save" /\ op'[c].site = op[c].site /\ op'[c].result = op[c].result
      /\ op'[c].token = token /\ \A d \in Callers \ {c} : op'[d] = op[d]
  <2>1. op' = [one EXCEPT ![c].token = token]
    BY <1>1, <1>6
  <2> QED
    BY <1>4, <2>1 DEF Ops
<1> QED
  BY <1>1, <1>6, <1>7

(* The old refresh token is the one of the file, or none. *)
LEMMA IssueStep ==
  ASSUME BrokerInv, NEW c \in Callers, op[c].at \in {"refresh", "exchange"}, NEW rotated \in BOOLEAN, Issue(c, rotated),
         op[c].at = "refresh" => op[c].token.refresh \in honoured,
         grant' = [grant EXCEPT ![op[c].site] = IF rotated THEN issued + 1 ELSE op[c].token.refresh],
         UNCHANGED <<disk, mutex, lost, revoked, undeleted>>
  PROVE  BrokerInv'
<1> DEFINE site == op[c].site
           old == op[c].token.refresh
<1>0. /\ BrokerTypes /\ site \in Sites /\ op[c].result = "none" /\ op[c].at \in Working
      /\ op[c].at = "refresh" => op[c].token = disk[site]
      /\ op[c].at = "exchange" => old = 0
  BY TokenFields DEF BrokerInv, HolderInv, AtWork, Working
<1>1. /\ issued < MaxTokens /\ issued' = issued + 1 /\ fresh' = fresh \cup {issued + 1}
      /\ honoured' = IF rotated THEN (honoured \ {old}) \cup {issued + 1} ELSE honoured
      /\ op' \in [Callers -> Ops] /\ \A d \in Callers \ {c} : op'[d] = op[d]
      /\ op'[c].at = "save" /\ op'[c].site = site /\ op'[c].result = op[c].result
      /\ op'[c].token.site = site /\ op'[c].token.access = issued + 1
      /\ op'[c].token.refresh = IF rotated THEN issued + 1 ELSE old
  <2>1. /\ issued < MaxTokens /\ issued' = issued + 1 /\ fresh' = fresh \cup {issued + 1}
        /\ honoured' = IF rotated THEN (honoured \ {op[c].token.refresh}) \cup {issued + 1} ELSE honoured
        /\ op' \in [Callers -> Ops] /\ \A d \in Callers \ {c} : op'[d] = op[d]
        /\ op'[c].at = "save" /\ op'[c].site = op[c].site /\ op'[c].result = op[c].result
        /\ op'[c].token = [site |-> op[c].site, access |-> issued + 1,
                           refresh |-> IF rotated THEN issued + 1 ELSE op[c].token.refresh]
    BY <1>0, IssueIs
  <2>2. op'[c].token.site = site /\ op'[c].token.access = issued + 1
        /\ op'[c].token.refresh = IF rotated THEN issued + 1 ELSE old
    BY <2>1
  <2> QED
    BY <2>1, <2>2
<1>2. /\ issued \in 0..MaxTokens /\ MaxTokens \in Nat /\ old \in 0..issued
      /\ old # 0 => old \in Numbers(site) /\ old \in honoured
  <2>1. CASE op[c].at = "exchange"
    BY <1>0, <2>1, OAuthAssumption DEF BrokerTypes
  <2>2. CASE op[c].at = "refresh"
    <3>1. old = disk[site].refresh /\ old \in honoured
      BY <1>0, <2>2
    <3>2. issued \in Nat /\ issued \in 0..MaxTokens /\ MaxTokens \in Nat /\ honoured \subseteq 1..issued
      BY <1>0, OAuthAssumption DEF BrokerTypes
    <3>3. old \in 1..issued
      BY <3>1, <3>2
    <3>4. old \in Numbers(site)
      BY <3>1, <3>2, <3>3 DEF Numbers
    <3> QED
      BY <3>1, <3>2, <3>3, <3>4
  <2> QED
    BY <2>1, <2>2
<1>3. /\ grant' \in [Sites -> 0..MaxTokens] /\ grant'[site] = IF rotated THEN issued + 1 ELSE old
      /\ \A s \in Sites \ {site} : grant'[s] = grant[s]
  BY <1>0, <1>1, <1>2 DEF BrokerTypes
<1> HIDE DEF site, old
<1>4. BrokerTypes'
  BY <1>0, <1>1, <1>2, <1>3 DEF BrokerTypes
<1>5. /\ \A s \in Sites : Numbers(s)' \subseteq Numbers(s) \cup {issued + 1}
      /\ \A s \in Sites \ {site} : Numbers(s)' = Numbers(s)
  BY <1>0, <1>2, <1>3 DEF Numbers
<1>6. \A s \in Sites : Numbers(s) \subseteq 1..issued /\ issued + 1 \notin Numbers(s)
  BY <1>2 DEF BrokerInv, DiskInv
<1>7. DiskInv'
  <2>1. \A s \in Sites : (disk[s] # NoToken => disk[s].site = s) /\ Numbers(s)' \subseteq 1..(issued + 1)
    BY <1>2, <1>5, <1>6 DEF BrokerInv, DiskInv
  <2>2. ASSUME NEW s \in Sites, NEW t \in Sites, s # t PROVE Numbers(s)' \cap Numbers(t)' = {}
    BY <1>5, <1>6, <2>2 DEF BrokerInv, DiskInv
  <2> QED
    BY <1>1, <2>1, <2>2 DEF DiskInv
<1>8. \A d \in Callers \ {c} : op[d].at \notin Working
  BY <1>0, Outsiders
<1>9. LockInv'
  BY <1>0, <1>1, LockKept DEF Working
<1>10. AtWork(c)'
  <2>1. issued + 1 \in (1..(issued + 1)) \ revoked
    BY <1>0, <1>2 DEF BrokerTypes
  <2>2. \A s \in Sites \ {site} : issued + 1 \notin Numbers(s)'
    BY <1>5, <1>6
  <2>3. grant'[site] = op'[c].token.refresh /\ (grant'[site] # 0 => grant'[site] \in honoured')
    BY <1>1, <1>2, <1>3
  <2> QED
    BY <1>0, <1>1, <2>1, <2>2, <2>3 DEF AtWork
<1>11. HolderInv'
  BY <1>0, <1>1, <1>8, <1>10 DEF HolderInv, BrokerInv, Working
<1>12. RevokedInv'
  BY <1>8, <1>0 DEF BrokerInv, RevokedInv, TakenBack, Working
<1>13. KeptInv'
  <2>1. \A s \in Sites : s = site => Writing(c, s)'
    BY <1>1 DEF Writing
  <2>2. ASSUME NEW s \in Sites \ lost, s # site PROVE Kept(s)'
    <3>1. Kept(s)
      BY <1>0, <1>8, <2>2 DEF BrokerInv, KeptInv, Writing, Working
    <3>2. grant[s] # 0 => grant[s] # old
      BY <1>0, <1>2, <2>2 DEF BrokerInv, DiskInv, Numbers
    <3> QED
      BY <1>1, <1>3, <2>2, <3>1, <3>2 DEF Kept
  <2> QED
    BY <2>1, <2>2, <1>0 DEF KeptInv
<1> QED
  BY <1>4, <1>7, <1>9, <1>11, <1>12, <1>13 DEF BrokerInv

(* No two sites have the same token. *)
LEMMA AccessDiffers ==
  ASSUME BrokerTypes, DiskInv, NEW s \in Sites, NEW t \in Sites, s # t, disk[s].access \in revoked
  PROVE  disk[s].access # disk[t].access
<1>1. disk[s].access \in Numbers(s) /\ (disk[s].access = disk[t].access => disk[s].access \in Numbers(t))
  BY DEF BrokerTypes, Numbers
<1> QED
  BY <1>1 DEF DiskInv

LEMMA SaveStep == ASSUME BrokerInv, NEW c \in Callers, Save(c) PROVE BrokerInv'
<1> DEFINE site == op[c].site
           token == op[c].token
<1>0. /\ BrokerTypes /\ op[c].at = "save" /\ op[c].at \in Working /\ AtWork(c) /\ site \in Sites /\ token \in Tokens
      /\ UNCHANGED <<issued, fresh, honoured, grant, revoked>>
  BY DEF BrokerInv, HolderInv, Save, Working, BrokerTypes, Ops
<1>1. PICK given \in Tokens, result \in {"token", "error"} : Return(c, result, given)
  BY <1>0, TokenFields DEF Save
<1>2. /\ op' \in [Callers -> Ops] /\ mutex' = "nobody" /\ op'[c].at = "done"
      /\ \A d \in Callers \ {c} : op'[d] = op[d]
  BY <1>0, <1>1, ReturnIs DEF BrokerTypes
<1>3. \A d \in Callers \ {c} : op[d].at \notin Working
  BY <1>0, Outsiders
<1>4. LockInv'
  BY <1>0, <1>2, LockKept DEF Working
<1>5. HolderInv'
  BY <1>2, <1>3 DEF BrokerInv, HolderInv, Working
<1>6. \A d \in Callers, s \in Sites : ~Writing(d, s)' /\ (Writing(d, s) => s = site)
  BY <1>2, <1>3 DEF Writing, Working
<1>7. CASE disk' = [disk EXCEPT ![site] = token] /\ lost' = lost \ {site} /\ undeleted' = undeleted \ {disk[site].access}
  <2>1. /\ disk' \in [Sites -> Tokens] /\ disk'[site] = token /\ \A s \in Sites \ {site} : disk'[s] = disk[s]
    BY <1>0, <1>7 DEF BrokerTypes
  <2>2. BrokerTypes'
    BY <1>0, <1>2, <1>7, <2>1 DEF BrokerTypes
  <2>3. /\ \A s \in Sites : s = site => Numbers(s)' \subseteq {token.access} \cup Numbers(s)
        /\ \A s \in Sites \ {site} : Numbers(s)' = Numbers(s)
    BY <1>0, <2>1 DEF Numbers, AtWork
  <2>4. DiskInv'
    BY <1>0, <2>1, <2>3 DEF BrokerInv, DiskInv, AtWork
  <2>5. RevokedInv'
    <3>1. \A s \in Sites : s = site => disk'[s].access \notin revoked'
      BY <1>0, <2>1 DEF AtWork
    <3>2. ASSUME NEW s \in Sites, s # site, disk'[s].access \in TakenBack' PROVE FALSE
      <4>1. disk[s].access \in revoked
        BY <1>0, <2>1, <3>2 DEF TakenBack
      <4>2. disk[s].access # disk[site].access
        BY <1>0, <3>2, <4>1, AccessDiffers DEF BrokerInv
      <4>3. disk[s].access \in TakenBack
        BY <1>0, <1>7, <2>1, <3>2, <4>2 DEF TakenBack
      <4> QED
        BY <1>0, <1>3, <4>3 DEF BrokerInv, RevokedInv, Working
    <3> QED
      BY <3>1, <3>2 DEF RevokedInv, TakenBack
  <2>6. KeptInv'
    <3>1. \A s \in Sites : s = site => Kept(s)'
      BY <1>0, <2>1 DEF Kept, AtWork
    <3>2. ASSUME NEW s \in Sites \ lost, s # site PROVE Kept(s)'
      BY <1>0, <1>6, <2>1, <3>2 DEF BrokerInv, KeptInv, Kept
    <3> QED
      BY <1>7, <3>1, <3>2 DEF KeptInv
  <2> QED
    BY <1>4, <1>5, <2>2, <2>4, <2>5, <2>6 DEF BrokerInv
<1>8. CASE disk' = disk /\ lost' = lost \cup {site} /\ undeleted' = undeleted
  <2>1. BrokerTypes'
    BY <1>0, <1>2, <1>8 DEF BrokerTypes
  <2>2. DiskInv'
    BY <1>0, <1>8 DEF BrokerInv, DiskInv, Numbers
  <2>3. RevokedInv'
    BY <1>0, <1>3, <1>8 DEF BrokerInv, RevokedInv, TakenBack, Working
  <2>4. KeptInv'
    BY <1>0, <1>6, <1>8 DEF BrokerInv, KeptInv, Kept
  <2> QED
    BY <1>4, <1>5, <2>1, <2>2, <2>3, <2>4 DEF BrokerInv
<1> QED
  BY <1>7, <1>8 DEF Save

LEMMA RevokeStep == ASSUME BrokerInv, NEW c \in Callers, Revoke(c) PROVE BrokerInv'
<1> DEFINE site == op[c].site
           token == op[c].token
<1>0. /\ BrokerTypes /\ op[c].at = "revoke" /\ op[c].at \in Working /\ AtWork(c) /\ site \in Sites /\ token \in Tokens
      /\ UNCHANGED <<disk, issued, fresh, lost, undeleted>>
      /\ revoked' = revoked \cup {token.access}
      /\ token = disk[site] /\ token # NoToken /\ op[c].result = "none"
  BY DEF BrokerInv, HolderInv, AtWork, Revoke, Working, BrokerTypes, Ops
<1>1. GoOn(c, "delete", token)
  BY DEF Revoke
<1>2. /\ op' \in [Callers -> Ops] /\ mutex' = mutex /\ op'[c].at = "delete" /\ op'[c].token = token
      /\ op'[c].site = site /\ op'[c].result = "none"
      /\ \A d \in Callers \ {c} : op'[d] = op[d]
  <2>1. PICK given \in Tokens : given = token
    BY <1>0
  <2>2. GoOn(c, "delete", given) /\ "delete" \in Working
    BY <1>1, <2>1 DEF Working
  <2>3. /\ op' \in [Callers -> Ops] /\ mutex' = mutex /\ op'[c].at = "delete" /\ op'[c].token = given
        /\ op'[c].site = site /\ op'[c].result = op[c].result
        /\ \A d \in Callers \ {c} : op'[d] = op[d]
    BY <1>0, <2>2, GoOnIs DEF BrokerTypes
  <2> QED
    BY <1>0, <2>1, <2>3
<1>3. \A d \in Callers \ {c} : op[d].at \notin Working
  BY <1>0, Outsiders
<1>4. LockInv'
  BY <1>0, <1>2, LockKept DEF Working
<1>5. token.access # 0 /\ token.access \in Numbers(site) /\ token.access \in 1..issued
  BY <1>0, TokenFields DEF BrokerInv, DiskInv, Numbers
<1>6. /\ honoured' \subseteq honoured /\ \A a \in honoured : a \notin Numbers(site) => a \in honoured'
      /\ grant' \in [Sites -> 0..MaxTokens] /\ \A s \in Sites \ {site} : grant'[s] = grant[s]
      /\ grant'[site] \in {0, grant[site]}
  <2>1. CASE honoured' = honoured \ {token.refresh} /\ grant' = [grant EXCEPT ![site] = 0]
    <3>1. 0 \in 0..MaxTokens
      BY OAuthAssumption
    <3>2. token.refresh = 0 \/ token.refresh \in Numbers(site)
      BY <1>0 DEF Numbers
    <3>3. 0 \notin honoured
      BY <1>0 DEF BrokerTypes
    <3> QED
      BY <1>0, <2>1, <3>1, <3>2, <3>3 DEF BrokerTypes
  <2>2. CASE UNCHANGED <<honoured, grant>>
    BY <1>0, <2>2 DEF BrokerTypes
  <2> QED
    BY <2>1, <2>2 DEF Revoke
<1> HIDE DEF site, token
<1>7. BrokerTypes'
  BY <1>0, <1>2, <1>5, <1>6 DEF BrokerTypes
<1>8. /\ \A s \in Sites : s = site => Numbers(s)' \subseteq Numbers(s)
      /\ \A s \in Sites \ {site} : Numbers(s)' = Numbers(s)
  BY <1>0, <1>6 DEF Numbers
<1>9. DiskInv'
  BY <1>0, <1>8 DEF BrokerInv, DiskInv
<1>10. HolderInv'
  <2>1. AtWork(c)'
    BY <1>0, <1>2 DEF AtWork
  <2> QED
    BY <1>0, <1>2, <1>3, <2>1 DEF BrokerInv, HolderInv, Working
<1>11. RevokedInv'
  <2>1. ASSUME NEW s \in Sites, s # site PROVE disk[s].access \notin TakenBack'
    <3>1. disk[s].access \notin TakenBack
      BY <1>0, <1>3 DEF BrokerInv, RevokedInv, TakenBack, Working
    <3>2. disk[s].access # token.access
      BY <1>0, <1>5, <2>1 DEF BrokerInv, DiskInv, Numbers
    <3> QED
      BY <1>0, <3>1, <3>2 DEF TakenBack
  <2> QED
    BY <1>0, <1>2, <2>1 DEF RevokedInv, TakenBack
<1>12. KeptInv'
  <2>1. \A s \in Sites : s = site => Writing(c, s)'
    BY <1>2 DEF Writing
  <2>2. ASSUME NEW s \in Sites \ lost, s # site PROVE Kept(s)'
    <3>1. Kept(s)
      BY <1>0, <1>3, <2>2 DEF BrokerInv, KeptInv, Writing, Working
    <3>2. grant[s] # 0 => grant[s] \notin Numbers(site)
      BY <1>0, <2>2 DEF BrokerInv, DiskInv, Numbers
    <3> QED
      BY <1>0, <1>6, <2>2, <3>1, <3>2 DEF Kept
  <2> QED
    BY <1>0, <2>1, <2>2 DEF KeptInv
<1> QED
  BY <1>4, <1>7, <1>9, <1>10, <1>11, <1>12 DEF BrokerInv

LEMMA DeleteStep == ASSUME BrokerInv, NEW c \in Callers, Delete(c) PROVE BrokerInv'
<1> DEFINE site == op[c].site
           token == op[c].token
<1>0. /\ BrokerTypes /\ op[c].at = "delete" /\ op[c].at \in Working /\ site \in Sites /\ token = disk[site]
      /\ UNCHANGED <<issued, fresh, honoured, revoked>> /\ token \in Tokens /\ token # NoToken
  BY DEF BrokerInv, HolderInv, AtWork, Delete, BrokerTypes, Ops, Working
<1>1. PICK result \in {"revoked", "error"} : Return(c, result, NoToken)
  BY DEF Delete
<1>2. /\ op' \in [Callers -> Ops] /\ mutex' = "nobody" /\ op'[c].at = "done"
      /\ \A d \in Callers \ {c} : op'[d] = op[d]
  BY <1>0, <1>1, TokenFields, ReturnIs DEF BrokerTypes
<1>3. \A d \in Callers \ {c} : op[d].at \notin Working
  BY <1>0, Outsiders
<1>4. LockInv'
  BY <1>0, <1>2, LockKept DEF Working
<1>5. HolderInv'
  BY <1>2, <1>3 DEF BrokerInv, HolderInv, Working
<1>6. \A d \in Callers, s \in Sites : /\ ~Writing(d, s)' /\ (Writing(d, s) => s = site)
                                      /\ op[d].at = "delete" /\ op[d].site = s => s = site
  BY <1>2, <1>3 DEF Writing, Working
<1>7. CASE /\ disk' = [disk EXCEPT ![site] = NoToken] /\ lost' = lost \ {site}
           /\ grant' = [grant EXCEPT ![site] = 0] /\ undeleted' = undeleted \ {token.access}
  <2>1. /\ disk' \in [Sites -> Tokens] /\ disk'[site] = NoToken /\ \A s \in Sites \ {site} : disk'[s] = disk[s]
    BY <1>0, <1>7, TokenFields DEF BrokerTypes
  <2>2. /\ grant' \in [Sites -> 0..MaxTokens] /\ grant'[site] = 0 /\ \A s \in Sites \ {site} : grant'[s] = grant[s]
    BY <1>0, <1>7, OAuthAssumption DEF BrokerTypes
  <2>3. BrokerTypes'
    BY <1>0, <1>2, <1>7, <2>1, <2>2 DEF BrokerTypes
  <2>4. (\A s \in Sites : s = site => Numbers(s)' = {}) /\ \A s \in Sites \ {site} : Numbers(s)' = Numbers(s)
    BY <1>0, <2>1, <2>2, TokenFields DEF Numbers
  <2>5. DiskInv'
    BY <1>0, <2>1, <2>4 DEF BrokerInv, DiskInv
  <2>6. RevokedInv'
    <3>1. \A s \in Sites : s = site => disk'[s].access \notin revoked'
      BY <1>0, <2>1, TokenFields DEF BrokerTypes
    <3>2. ASSUME NEW s \in Sites, s # site, disk'[s].access \in TakenBack' PROVE FALSE
      <4>1. disk[s].access \in revoked
        BY <1>0, <2>1, <3>2 DEF TakenBack
      <4>2. disk[s].access # token.access
        BY <1>0, <3>2, <4>1, AccessDiffers DEF BrokerInv
      <4>3. disk[s].access \in TakenBack
        BY <1>0, <1>7, <2>1, <3>2, <4>2 DEF TakenBack
      <4> QED
        BY <1>6, <3>2, <4>3 DEF BrokerInv, RevokedInv
    <3> QED
      BY <3>1, <3>2 DEF RevokedInv, TakenBack
  <2>7. KeptInv'
    BY <1>0, <1>6, <1>7, <2>1, <2>2, TokenFields DEF BrokerInv, KeptInv, Kept
  <2> QED
    BY <1>4, <1>5, <2>3, <2>5, <2>6, <2>7 DEF BrokerInv
<1>8. CASE lost' = lost \cup {site} /\ undeleted' = undeleted \cup {token.access} /\ UNCHANGED <<disk, grant>>
  <2>0. token.access \in 1..issued
    BY <1>0, TokenFields DEF BrokerInv, DiskInv, Numbers
  <2>1. BrokerTypes'
    BY <1>0, <1>2, <1>8, <2>0 DEF BrokerTypes
  <2>2. DiskInv'
    BY <1>0, <1>8 DEF BrokerInv, DiskInv, Numbers
  <2>3. RevokedInv'
    BY <1>0, <1>6, <1>8 DEF BrokerInv, RevokedInv, TakenBack
  <2>4. KeptInv'
    BY <1>0, <1>6, <1>8 DEF BrokerInv, KeptInv, Kept
  <2> QED
    BY <1>4, <1>5, <2>1, <2>2, <2>3, <2>4 DEF BrokerInv
<1> QED
  BY <1>7, <1>8 DEF Delete

LEMMA CrashStep == ASSUME BrokerInv, Crash PROVE BrokerInv'
<1> DEFINE c == mutex
           site == op[c].site
<1>0. /\ BrokerTypes /\ c \in Callers /\ op[c].at \in Working /\ site \in Sites /\ mutex' = "nobody"
      /\ UNCHANGED <<disk, issued, fresh, honoured, grant, revoked>>
      /\ op' = [d \in Callers |-> Idle]
      /\ op[c].at = "delete" => op[c].token = disk[site] /\ disk[site] # NoToken
  BY DEF BrokerInv, BrokerTypes, LockInv, HolderInv, AtWork, Crash, Working
<1>1. Idle \in Ops /\ Idle.at = "idle"
  BY TokenFields DEF Idle, Ops
<1>2. op' \in [Callers -> Ops] /\ \A d \in Callers : op'[d].at = "idle"
  BY <1>0, <1>1
<1>3. /\ lost' \subseteq Sites /\ lost \subseteq lost' /\ (op[c].at \in {"save", "delete"} => site \in lost')
      /\ undeleted \subseteq undeleted' /\ undeleted' \subseteq 1..issued
      /\ op[c].at = "delete" => disk[site].access \in undeleted'
  <2>1. op[c].at = "delete" => disk[site].access \in 1..issued
    BY <1>0, TokenFields DEF BrokerInv, BrokerTypes, DiskInv, Numbers
  <2> QED
    BY <1>0, <2>1 DEF Crash, BrokerTypes
<1>4. \A d \in Callers : op[d].at \in Working => d = c
  BY DEF BrokerInv, LockInv
<1> HIDE DEF c, site
<1>5. BrokerTypes'
  BY <1>0, <1>2, <1>3 DEF BrokerTypes
<1>6. LockInv'
  BY <1>0, <1>2, OAuthAssumption DEF LockInv, Working
<1>7. HolderInv'
  BY <1>2 DEF HolderInv, Working
<1>8. DiskInv'
  BY <1>0 DEF BrokerInv, DiskInv, Numbers
<1>9. RevokedInv'
  BY <1>0, <1>3, <1>4 DEF BrokerInv, RevokedInv, TakenBack, Working, site
<1>10. KeptInv'
  BY <1>0, <1>3, <1>4 DEF BrokerInv, KeptInv, Kept, Writing, Working, site
<1> QED
  BY <1>5, <1>6, <1>7, <1>8, <1>9, <1>10 DEF BrokerInv

(* The rotated refresh token was this site's alone, and the site counts as   *)
(* one the broker has lost track of.                                        *)
LEMMA AnswerLostStep == ASSUME BrokerInv, NEW c \in Callers, AnswerLost(c) PROVE BrokerInv'
<1> DEFINE site == op[c].site
           old == op[c].token.refresh
<1>0. /\ BrokerTypes /\ op[c].at = "refresh" /\ op[c].at \in Working /\ site \in Sites /\ op[c].result = "none"
      /\ old \in honoured /\ honoured' = honoured \ {old} /\ lost' = lost \cup {site}
      /\ old = disk[site].refresh
      /\ UNCHANGED <<disk, issued, fresh, grant, revoked, undeleted>>
  BY DEF BrokerInv, HolderInv, AtWork, AnswerLost, Working
<1>1. GoOn(c, "callback", NoToken) \/ Return(c, "error", NoToken)
  BY DEF AnswerLost
<1>2. /\ op' \in [Callers -> Ops] /\ \A d \in Callers \ {c} : op'[d] = op[d]
      /\ op'[c].at \in {"callback", "done"}
      /\ op'[c].at = "callback" =>
            op'[c].token = NoToken /\ op'[c].site = site /\ op'[c].result = "none" /\ mutex' = mutex
      /\ op'[c].at = "done" => mutex' = "nobody"
  <2>1. CASE GoOn(c, "callback", NoToken)
    <3>1. op \in [Callers -> Ops] /\ "callback" \in Working /\ NoToken \in Tokens
      BY <1>0, TokenFields DEF BrokerTypes, Working
    <3>2. /\ op' \in [Callers -> Ops] /\ mutex' = mutex
          /\ op'[c].at = "callback" /\ op'[c].token = NoToken /\ op'[c].site = op[c].site
          /\ op'[c].result = op[c].result
          /\ \A d \in Callers \ {c} : op'[d] = op[d]
      BY <2>1, <3>1, GoOnIs
    <3> QED
      BY <1>0, <3>2
  <2>2. CASE Return(c, "error", NoToken)
    <3>1. op \in [Callers -> Ops] /\ NoToken \in Tokens
      BY <1>0, TokenFields DEF BrokerTypes
    <3>2. op' \in [Callers -> Ops] /\ mutex' = "nobody" /\ op'[c].at = "done"
          /\ \A d \in Callers \ {c} : op'[d] = op[d]
      BY <2>2, <3>1, ReturnIs
    <3> QED
      BY <3>2
  <2> QED
    BY <1>1, <2>1, <2>2
<1>3. \A d \in Callers \ {c} : op[d].at \notin Working
  BY <1>0, Outsiders
<1>4. LockInv' /\ mutex' \in Callers \cup {"nobody"}
  BY <1>0, <1>2, LockKept DEF Working, BrokerTypes
<1> HIDE DEF site, old
<1>5. BrokerTypes'
  BY <1>0, <1>2, <1>4 DEF BrokerTypes
<1>6. DiskInv'
  BY <1>0 DEF BrokerInv, DiskInv, Numbers
<1>7. HolderInv'
  <2>1. op'[c].at \in Working => AtWork(c)'
    BY <1>0, <1>2 DEF AtWork, Working
  <2> QED
    BY <1>0, <1>2, <1>3, <2>1 DEF BrokerInv, HolderInv, Working
<1>8. \A d \in Callers : op[d].at \notin {"save", "delete"}
  BY <1>0, <1>3 DEF Working
<1>9. RevokedInv'
  BY <1>0, <1>8 DEF BrokerInv, RevokedInv, TakenBack
<1>10. KeptInv'
  <2>1. ASSUME NEW s \in Sites \ lost, s # site PROVE Kept(s)'
    <3>1. Kept(s)
      BY <1>8, <2>1 DEF BrokerInv, KeptInv, Writing
    <3>2. old \in Numbers(site)
      BY <1>0 DEF Numbers, BrokerTypes
    <3>3. grant[s] # 0 => grant[s] # old
      BY <1>0, <2>1, <3>2 DEF BrokerInv, DiskInv, Numbers
    <3> QED
      BY <1>0, <3>1, <3>3 DEF Kept
  <2> QED
    BY <1>0, <2>1 DEF KeptInv
<1> QED
  BY <1>4, <1>5, <1>6, <1>7, <1>9, <1>10 DEF BrokerInv

LEMMA BrokerNextInv == ASSUME BrokerInv, OAuthNext PROVE BrokerInv'
<1>0. BrokerTypes /\ \A c \in Callers : op[c].token \in Tokens
  BY DEF BrokerInv, BrokerTypes, Ops
<1>1. ASSUME NEW c \in Callers, NEW what \in {"acquire", "quietly", "revoke"}, NEW s \in Sites, Use(c, what, s)
      PROVE BrokerInv'
  <2>1. [Idle EXCEPT !.what = what, !.site = s, !.at = "lock"]
          = [what |-> what, site |-> s, at |-> "lock", token |-> NoToken, result |-> "none"]
    <3>1. PICK one : one = [what |-> what, site |-> "none", at |-> "idle", token |-> NoToken, result |-> "none"]
      OBVIOUS
    <3>2. PICK two : two = [what |-> what, site |-> s, at |-> "idle", token |-> NoToken, result |-> "none"]
      OBVIOUS
    <3>3. [Idle EXCEPT !.what = what] = one
      BY <3>1 DEF Idle
    <3>4. [one EXCEPT !.site = s] = two
      BY <3>1, <3>2
    <3>5. [two EXCEPT !.at = "lock"] = [what |-> what, site |-> s, at |-> "lock", token |-> NoToken, result |-> "none"]
      BY <3>2
    <3> QED
      BY <3>3, <3>4, <3>5
  <2>2. /\ op[c].at \in {"idle", "done"} /\ op' = [op EXCEPT ![c] = [what |-> what, site |-> s, at |-> "lock", token |-> NoToken, result |-> "none"]]
        /\ UNCHANGED <<disk, mutex, issued, fresh, honoured, grant, lost, revoked, undeleted>>
    BY <1>1, <2>1 DEF Use
  <2>3. /\ op' \in [Callers -> Ops] /\ op'[c].at = "lock" /\ op'[c].site = s /\ op'[c].result = "none"
        /\ \A d \in Callers \ {c} : op'[d] = op[d]
    BY <1>0, <2>2, TokenFields DEF BrokerTypes, Ops
  <2>4. LockInv'
    BY <2>2, <2>3 DEF BrokerInv, LockInv, Working
  <2> QED
    BY <1>0, <2>2, <2>3, <2>4, ControlStep DEF BrokerTypes
<1>2. ASSUME NEW c \in Callers, Lock(c) PROVE BrokerInv'
  <2>1. /\ op[c].at = "lock" /\ mutex = "nobody" /\ mutex' = c /\ op' = [op EXCEPT ![c].at = "load"]
        /\ UNCHANGED <<disk, issued, fresh, honoured, grant, lost, revoked, undeleted>>
    BY <1>2 DEF Lock
  <2>2. /\ op' \in [Callers -> Ops] /\ op'[c].at = "load" /\ op'[c].site = op[c].site /\ op'[c].result = op[c].result
        /\ \A d \in Callers \ {c} : op'[d] = op[d]
    BY <1>0, <2>1 DEF BrokerTypes, Ops, Working
  <2>3. LockInv'
    BY <2>1, <2>2, OAuthAssumption DEF BrokerInv, LockInv, Working
  <2>4. op[c].result = "none" /\ op[c].site \in Sites
    BY <2>1 DEF BrokerInv, HolderInv
  <2> QED
    BY <2>1, <2>2, <2>3, <2>4, ControlStep
<1>3. ASSUME NEW c \in Callers, LoadFails(c) PROVE BrokerInv'
  <2>1. /\ op[c].at \in Working \ {"save", "delete"}
        /\ GoOn(c, "callback", NoToken) \/ Return(c, "error", NoToken)
        /\ UNCHANGED <<disk, issued, fresh, honoured, grant, lost, revoked, undeleted>>
    BY <1>3 DEF LoadFails, Working
  <2> QED
    BY <2>1, TokenFields, GoOnStep, ReturnStep
<1>4. ASSUME NEW c \in Callers, Load(c) PROVE BrokerInv'
  <2>1. /\ op[c].at = "load" /\ op[c].at \in Working \ {"save", "delete"} /\ op[c].site \in Sites
        /\ UNCHANGED <<disk, issued, fresh, honoured, grant, lost, revoked, undeleted>>
    BY <1>4 DEF Load, Working, BrokerInv, HolderInv
  <2>2. PICK tok \in Tokens : tok = disk[op[c].site]
    BY <1>0, <2>1 DEF BrokerTypes
  <2>3. \/ Return(c, "revoked", NoToken) \/ Return(c, "reauth", NoToken) \/ Return(c, "token", tok)
        \/ GoOn(c, "callback", NoToken)
        \/ tok # NoToken /\ (GoOn(c, "revoke", tok) \/ GoOn(c, "refresh", tok))
    BY <1>4, <2>2, TokenFields DEF Load
  <2> QED
    BY <2>1, <2>2, <2>3, TokenFields, GoOnStep, ReturnStep
<1>5. ASSUME NEW c \in Callers, Refresh(c) PROVE BrokerInv'
  <2>1. PICK rotated \in BOOLEAN : Issue(c, rotated) /\ grant' = [grant EXCEPT ![op[c].site] = IF rotated THEN issued' ELSE op[c].token.refresh]
    BY <1>5 DEF Refresh
  <2>2. issued' = issued + 1
    BY <2>1 DEF Issue
  <2>3. op[c].at = "refresh" /\ op[c].token.refresh \in honoured /\ UNCHANGED <<disk, mutex, lost, revoked, undeleted>>
    BY <1>5 DEF Refresh
  <2> QED
    BY <2>1, <2>2, <2>3, IssueStep
<1>6. ASSUME NEW c \in Callers, RefreshFails(c) PROVE BrokerInv'
  <2>1. /\ op[c].at \in Working \ {"save", "delete"}
        /\ GoOn(c, "callback", NoToken) \/ Return(c, "error", NoToken) \/ Return(c, "reauth", NoToken)
        /\ UNCHANGED <<disk, issued, fresh, honoured, grant, lost, revoked, undeleted>>
    BY <1>6 DEF RefreshFails, Working
  <2> QED
    BY <2>1, TokenFields, GoOnStep, ReturnStep
<1>7. ASSUME NEW c \in Callers, Callback(c) \/ FlowFails(c) PROVE BrokerInv'
  <2>1. /\ op[c].at \in Working \ {"save", "delete"}
        /\ GoOn(c, "exchange", NoToken) \/ Return(c, "error", NoToken)
        /\ UNCHANGED <<disk, issued, fresh, honoured, grant, lost, revoked, undeleted>>
    BY <1>7 DEF Callback, FlowFails, Working
  <2> QED
    BY <2>1, TokenFields, GoOnStep, ReturnStep
<1>8. ASSUME NEW c \in Callers, Exchange(c) PROVE BrokerInv'
  <2>1. PICK rotated \in BOOLEAN : Issue(c, rotated) /\ grant' = [grant EXCEPT ![op[c].site] = IF rotated THEN issued' ELSE 0]
    BY <1>8 DEF Exchange
  <2>2. issued' = issued + 1
    BY <2>1 DEF Issue
  <2>3. op[c].at = "exchange" /\ UNCHANGED <<disk, mutex, lost, revoked, undeleted>>
    BY <1>8 DEF Exchange
  <2>4. op[c].token.refresh = 0
    BY <2>3, TokenFields DEF BrokerInv, HolderInv, AtWork, Working
  <2> QED
    BY <2>1, <2>2, <2>3, <2>4, IssueStep
<1>9. ASSUME NEW a \in fresh, Expire(a) PROVE BrokerInv'
  <2>1. fresh' \subseteq fresh /\ UNCHANGED <<disk, op, mutex, issued, honoured, grant, lost, revoked, undeleted>>
    BY <1>9 DEF Expire
  <2>2. BrokerTypes' /\ LockInv' /\ RevokedInv'
    BY <1>0, <2>1 DEF BrokerInv, BrokerTypes, LockInv, RevokedInv, TakenBack
  <2>3. DiskInv'
    BY <2>1 DEF BrokerInv, DiskInv, Numbers
  <2>4. HolderInv'
    <3>1. \A c \in Callers : AtWork(c) => AtWork(c)'
      BY <2>1 DEF AtWork, Numbers
    <3> QED
      BY <2>1, <3>1 DEF BrokerInv, HolderInv
  <2>5. KeptInv'
    BY <2>1 DEF BrokerInv, KeptInv, Kept, Writing
  <2> QED
    BY <2>2, <2>3, <2>4, <2>5 DEF BrokerInv
<1> QED
  BY <1>1, <1>2, <1>3, <1>4, <1>5, <1>6, <1>7, <1>8, <1>9, SaveStep, RevokeStep, DeleteStep, CrashStep, AnswerLostStep DEF OAuthNext

(* What the broker promises. *)
LEMMA BrokerKeeps == BrokerInv => GrantIsKept
BY OAuthAssumption DEF BrokerInv, LockInv, KeptInv, Kept, Writing, Working, GrantIsKept

TokensFitStep ==
  \A c \in Callers : op'[c].result = "token" /\ op[c].result = "none" =>
    /\ op'[c].token.site = op[c].site /\ op'[c].token.access \notin TakenBack
    /\ op[c].at = "load" => op'[c].token.access \in fresh

LEMMA TokensFitHolds == ASSUME BrokerInv, OAuthNext PROVE TokensFitStep
<1> SUFFICES ASSUME NEW c \in Callers, op'[c].result = "token", op[c].result = "none"
             PROVE  /\ op'[c].token.site = op[c].site /\ op'[c].token.access \notin TakenBack
                    /\ op[c].at = "load" => op'[c].token.access \in fresh
  BY DEF TokensFitStep
<1>0. BrokerTypes /\ op \in [Callers -> Ops] /\ disk \in [Sites -> Tokens] /\ \A d \in Callers : op[d].token \in Tokens
  BY DEF BrokerInv, BrokerTypes, Ops
<1>g. ASSUME NEW d \in Callers, NEW at \in Working, NEW token \in Tokens, GoOn(d, at, token) PROVE FALSE
  <2>1. op'[d].result = op[d].result /\ \A e \in Callers \ {d} : op'[e] = op[e]
    BY <1>0, <1>g, GoOnIs
  <2> QED
    BY <2>1
<1>r. ASSUME NEW d \in Callers, NEW result \in {"token", "reauth", "error", "revoked"}, NEW token \in Tokens,
             Return(d, result, token)
      PROVE  d = c /\ result = "token" /\ op'[c].token = token
  <2>1. op'[d].result = result /\ op'[d].token = token /\ \A e \in Callers \ {d} : op'[e] = op[e]
    BY <1>0, <1>r, ReturnIs
  <2> QED
    BY <2>1
<1>1. ASSUME NEW d \in Callers, NEW what \in {"acquire", "quietly", "revoke"}, NEW s \in Sites, Use(d, what, s)
      PROVE  FALSE
  <2>1. op' = [op EXCEPT ![d] = [what |-> what, site |-> s, at |-> "lock", token |-> NoToken, result |-> "none"]]
    BY <1>1 DEF Use, Idle
  <2> QED
    BY <1>0, <2>1
<1>2. ASSUME NEW d \in Callers, Lock(d) PROVE FALSE
  <2>1. op' = [op EXCEPT ![d].at = "load"]
    BY <1>2 DEF Lock
  <2> QED
    BY <1>0, <2>1 DEF Ops
<1>3. ASSUME NEW d \in Callers, LoadFails(d) \/ RefreshFails(d) \/ AnswerLost(d) \/ Callback(d) \/ FlowFails(d) PROVE FALSE
  <2>1. \/ \E at \in {"callback", "exchange"} : GoOn(d, at, NoToken)
        \/ \E result \in {"error", "reauth"} : Return(d, result, NoToken)
    BY <1>3 DEF LoadFails, RefreshFails, AnswerLost, Callback, FlowFails
  <2> QED
    BY <1>g, <1>r, <2>1, TokenFields DEF Working
<1>4. ASSUME NEW d \in Callers, Load(d)
      PROVE  /\ op'[c].token.site = op[c].site /\ op'[c].token.access \notin TakenBack
             /\ op'[c].token.access \in fresh
  <2>1. op[d].at = "load" /\ op[d].site \in Sites
    BY <1>4 DEF Load, Working, BrokerInv, HolderInv
  <2>2. PICK tok \in Tokens : tok = disk[op[d].site]
    BY <1>0, <2>1
  <2>3. \/ Return(d, "revoked", NoToken) \/ Return(d, "reauth", NoToken) \/ (Return(d, "token", tok) /\ tok.access \in fresh)
        \/ GoOn(d, "callback", NoToken) \/ GoOn(d, "revoke", tok) \/ GoOn(d, "refresh", tok)
    BY <1>4, <2>2 DEF Load
  <2>4. d = c /\ op'[c].token = tok /\ tok.access \in fresh
    BY <1>g, <1>r, <2>2, <2>3, TokenFields DEF Working
  <2>5. tok.site = op[c].site
    BY <1>0, <2>1, <2>2, <2>4, TokenFields DEF BrokerInv, BrokerTypes, DiskInv
  <2>6. tok.access \notin TakenBack
    BY <2>1, <2>2, <2>4 DEF BrokerInv, RevokedInv, TakenBack, LockInv, Working
  <2> QED
    BY <2>4, <2>5, <2>6
<1>5. ASSUME NEW d \in Callers, Save(d)
      PROVE  op[c].at = "save" /\ op'[c].token.site = op[c].site /\ op'[c].token.access \notin TakenBack
  <2>1. op[d].at = "save" /\ AtWork(d)
    BY <1>5 DEF Save, Working, BrokerInv, HolderInv
  <2>2. PICK tok \in Tokens : tok = op[d].token
    BY <1>0
  <2>3. Return(d, "token", tok) \/ Return(d, "error", NoToken)
    BY <1>5, <2>2 DEF Save
  <2>4. d = c /\ op'[c].token = tok
    BY <1>r, <2>3, TokenFields
  <2> QED
    BY <2>1, <2>2, <2>4 DEF AtWork, TakenBack
<1>6. ASSUME NEW d \in Callers, Refresh(d) \/ Exchange(d) PROVE FALSE
  <2>1. PICK rotated \in BOOLEAN : Issue(d, rotated)
    BY <1>6 DEF Refresh, Exchange
  <2>2. op[d].site \in Sites
    BY <1>6 DEF Refresh, Exchange, BrokerInv, HolderInv, Working
  <2>3. op'[d].result = op[d].result /\ \A e \in Callers \ {d} : op'[e] = op[e]
    BY <1>0, <2>1, <2>2, IssueIs
  <2> QED
    BY <2>3
<1>7. ASSUME NEW d \in Callers, Revoke(d) \/ Delete(d) PROVE FALSE
  <2>1. PICK tok \in Tokens : tok = op[d].token
    BY <1>0
  <2>2. GoOn(d, "delete", tok) \/ \E result \in {"revoked", "error"} : Return(d, result, NoToken)
    BY <1>7, <2>1 DEF Revoke, Delete
  <2> QED
    BY <1>g, <1>r, <2>2, TokenFields DEF Working
<1>8. CASE Crash
  BY <1>8 DEF Crash, Idle
<1>9. ASSUME NEW a \in fresh, Expire(a) PROVE FALSE
  BY <1>9 DEF Expire
<1> QED
  BY <1>1, <1>2, <1>3, <1>4, <1>5, <1>6, <1>7, <1>8, <1>9 DEF OAuthNext

-----------------------------------------------------------------------------
(* The credentials. What a program is about to write is what it read but    *)
(* for its own entry, so that only the entries others wrote since are lost; *)
(* a refresh token that was exchanged for another is with the program that  *)
(* will write the new one; and a new one is nowhere but with that program.  *)
ProgSteps == {"off", "resolve", "refresh", "load", "open", "write", "flow", "save_legacy", "ready"}
GoodCreds == {cred \in Creds : cred.method # "none" => cred.key # 0}
Stores == [active : Providers \cup {"none", "truncated", "torn"}, creds : [Providers -> GoodCreds]]
Sessions == {NoSession} \cup [provider : Providers, key : 1..MaxSecrets]
Progs == [at : ProgSteps, base : Stores, cred : GoodCreds, old : 0..MaxSecrets, target : Providers \cup {"none"},
          login : BOOLEAN, uses : Sessions]
CredTypes ==
  /\ store \in Stores /\ legacy \in GoodCreds /\ prog \in [Programs -> Progs] /\ secrets \in 0..MaxSecrets
  /\ unexpired \subseteq 1..secrets /\ renewable \subseteq 1..secrets /\ handed \subseteq 1..secrets
  /\ clashed \subseteq Providers /\ overtaken \in [Programs -> SUBSET Providers]
  /\ entered \in [Providers -> 0..MaxSecrets]
(* No number is of a later secret, and who has no refresh token got none.   *)
Fits(cred) == cred.key <= secrets /\ cred.refresh <= secrets /\ (cred.refresh = 0 => cred.key \notin handed)
FitsInv ==
  /\ \A v \in Providers : Fits(store.creds[v]) /\ \A p \in Programs : Fits(prog[p].base.creds[v])
  /\ \A p \in Programs : Fits(prog[p].cred) /\ prog[p].old <= secrets
KeyOnly(cred) == cred.method = "api_key" /\ cred.refresh = 0 /\ cred.key # 0
Saving(p) == prog[p].at \in {"load", "open", "write"}
Planned(p) ==
  /\ Saving(p) =>
       /\ prog[p].target \in Providers
       /\ (KeyOnly(prog[p].cred) /\ prog[p].old = 0) \/ (prog[p].cred.method = "oauth" /\ prog[p].target = "anthropic")
  /\ prog[p].at = "refresh" => prog[p].target = "anthropic"
  /\ prog[p].at = "flow" => prog[p].target \in {"anthropic", "none"}
  /\ prog[p].at \in {"flow", "save_legacy"} => prog[p].login
  /\ prog[p].at \notin {"refresh", "load", "open", "write"} => prog[p].old = 0
  /\ prog[p].base.creds["openai"].method # "oauth"
PlansInv == store.creds["openai"].method # "oauth" /\ \A p \in Programs : Planned(p)
HasKey(creds, v) == entered[v] # 0 => creds[v] = [method |-> "api_key", key |-> entered[v], refresh |-> 0]
Holding(p) == prog[p].at \in {"open", "write"}
KeyInv ==
  /\ Readable => \A v \in Providers \ clashed : HasKey(store.creds, v)
  /\ store.active = "torn" => clashed = Providers
  /\ store.active = "truncated" => clashed = Providers \/ \E p \in Programs : prog[p].at = "write"
  /\ \A p \in Programs : Holding(p) =>
       \A v \in Providers \ clashed : v \in overtaken[p] \/ HasKey(prog[p].base.creds, v)
Alive(r) == r = 0 \/ r \in renewable \/ r \in wasted \/ \E p \in Programs : Saving(p) /\ prog[p].old = r
RenewInv ==
  /\ Readable /\ "anthropic" \notin clashed => Alive(store.creds["anthropic"].refresh)
  /\ \A p \in Programs : Holding(p) /\ "anthropic" \notin clashed =>
       "anthropic" \in overtaken[p] \/ Alive(prog[p].base.creds["anthropic"].refresh)
  /\ \A p \in Programs : Saving(p) => prog[p].cred.refresh \in renewable \cup {0}
OnlyWith(q) ==
  LET r == prog[q].cred.refresh IN
  Saving(q) /\ r # 0 =>
    /\ store.creds["anthropic"].refresh # r
    /\ \A p \in Programs : prog[p].old # r /\ prog[p].base.creds["anthropic"].refresh # r
    /\ \A p \in Programs \ {q} : Saving(p) => prog[p].cred.refresh # r
NewInv == \A q \in Programs : OnlyWith(q)
CredInv == CredTypes /\ FitsInv /\ PlansInv /\ KeyInv /\ RenewInv /\ NewInv

LEMMA CredFields ==
  /\ NoCred \in GoodCreds /\ EmptyStore \in Stores /\ EmptyStore.active = "none" /\ NoCred.method = "none"
  /\ NoCred.key = 0 /\ NoCred.refresh = 0
  /\ \A v \in Providers : EmptyStore.creds[v] = NoCred
  /\ "anthropic" \in Providers /\ "openai" \in Providers
  /\ Truncated \in Stores /\ Truncated.creds = EmptyStore.creds /\ Truncated.active = "truncated"
  /\ Garbled \in Stores /\ Garbled.creds = EmptyStore.creds /\ Garbled.active = "torn"
<1>1. NoCred \in GoodCreds
  BY CredentialsAssumption DEF NoCred, Creds, GoodCreds
<1>2. [v \in Providers |-> NoCred] \in [Providers -> GoodCreds]
  BY <1>1
<1>3. EmptyStore \in Stores
  BY <1>2 DEF EmptyStore, Stores
<1>4. Truncated \in Stores /\ Truncated.creds = EmptyStore.creds /\ Truncated.active = "truncated"
  BY <1>3 DEF EmptyStore, Stores, Truncated
<1>5. Garbled \in Stores /\ Garbled.creds = EmptyStore.creds /\ Garbled.active = "torn"
  BY <1>3 DEF EmptyStore, Stores, Garbled
<1> QED
  BY <1>1, <1>3, <1>4, <1>5 DEF NoCred, EmptyStore, Providers

LEMMA OffIs ==
  /\ Off \in Progs /\ Off.at = "off" /\ Off.base = EmptyStore /\ Off.cred = NoCred /\ Off.old = 0
  /\ Off.target = "none" /\ Off.login = FALSE
<1>1. 0 \in 0..MaxSecrets /\ NoSession \in Sessions
  BY CredentialsAssumption DEF Sessions
<1>2. Off = [at |-> "off", base |-> EmptyStore, cred |-> NoCred, old |-> 0, target |-> "none", login |-> FALSE,
             uses |-> NoSession]
  BY DEF Off
<1> HIDE DEF Off, NoSession, EmptyStore, NoCred
<1> QED
  BY <1>1, <1>2, CredFields DEF Progs, ProgSteps

(* A program that has nothing to write. *)
Blank(what) == what \in Progs /\ what.base = EmptyStore /\ what.cred = NoCred /\ what.old = 0

LEMMA StartIs == [Off EXCEPT !.at = "resolve"] \in Progs /\ Blank([Off EXCEPT !.at = "resolve"])
                 /\ [Off EXCEPT !.at = "resolve"].at = "resolve"
BY OffIs DEF Progs, ProgSteps, Blank

LEMMA BecomesIs ==
  ASSUME prog \in [Programs -> Progs], NEW p \in Programs, NEW what \in Progs, Becomes(p, what)
  PROVE  prog' \in [Programs -> Progs] /\ prog'[p] = what /\ \A q \in Programs \ {p} : prog'[q] = prog[q]
BY DEF Becomes

LEMMA ReadyIs ==
  ASSUME prog \in [Programs -> Progs], NEW p \in Programs, NEW session \in Sessions, Ready(p, session)
  PROVE  /\ prog' \in [Programs -> Progs] /\ \A q \in Programs \ {p} : prog'[q] = prog[q]
         /\ prog'[p].at = "ready" /\ Blank(prog'[p])
<1>s. PICK one : one = [Off EXCEPT !.at = "ready"]
  OBVIOUS
<1>t. PICK what : what = [one EXCEPT !.uses = session]
  OBVIOUS
<1>1. one \in Progs /\ one.at = "ready" /\ one.base = EmptyStore /\ one.cred = NoCred /\ one.old = 0
  BY <1>s, OffIs DEF Progs, ProgSteps
<1>2. what \in Progs /\ what.at = "ready" /\ what.base = EmptyStore /\ what.cred = NoCred /\ what.old = 0
  BY <1>t, <1>1 DEF Progs
<1>3. Becomes(p, what)
  BY <1>s, <1>t DEF Ready
<1>4. prog' \in [Programs -> Progs] /\ prog'[p] = what /\ \A q \in Programs \ {p} : prog'[q] = prog[q]
  BY <1>2, <1>3, BecomesIs
<1> QED
  BY <1>2, <1>4 DEF Blank

LEMMA AdoptIs ==
  ASSUME prog \in [Programs -> Progs], NEW p \in Programs, NEW v \in Providers, NEW key \in 1..MaxSecrets, Adopt(p, v, key)
  PROVE  /\ prog' \in [Programs -> Progs] /\ \A q \in Programs \ {p} : prog'[q] = prog[q]
         /\ prog'[p].at = "ready" /\ Blank(prog'[p])
<1>1. PICK session : session = [provider |-> v, key |-> key]
  OBVIOUS
<1>2. session \in Sessions
  BY <1>1 DEF Sessions
<1>3. Ready(p, session)
  BY <1>1 DEF Adopt
<1> QED
  BY <1>2, <1>3, ReadyIs

LEMMA CredInitInv == CredentialsInit => CredInv
<1> SUFFICES ASSUME CredentialsInit PROVE CredInv
  OBVIOUS
<1>1. prog \in [Programs -> Progs] /\ \A p \in Programs : prog[p] = Off
  BY OffIs DEF CredentialsInit
<1>2. CredTypes
  <2>1. store \in Stores /\ legacy \in GoodCreds /\ clashed \subseteq Providers
    BY CredFields DEF CredentialsInit
  <2>2. 0 \in 0..MaxSecrets
    BY CredentialsAssumption
  <2>3. entered \in [Providers -> 0..MaxSecrets] /\ secrets \in 0..MaxSecrets
    BY <2>2 DEF CredentialsInit
  <2>4. /\ unexpired \subseteq 1..secrets /\ renewable \subseteq 1..secrets /\ handed \subseteq 1..secrets
        /\ overtaken \in [Programs -> SUBSET Providers]
    BY DEF CredentialsInit
  <2> QED
    BY <1>1, <2>1, <2>3, <2>4 DEF CredTypes
<1>3. store = EmptyStore /\ \A v \in Providers : store.creds[v] = NoCred /\ entered[v] = 0
  BY CredFields DEF CredentialsInit
<1>4. FitsInv
  BY <1>1, <1>3, CredFields, OffIs DEF CredentialsInit, FitsInv, Fits
<1>5. PlansInv
  BY <1>1, <1>3, CredFields, OffIs DEF PlansInv, Planned, Saving
<1>6. KeyInv
  BY <1>1, <1>3, CredFields, OffIs DEF KeyInv, HasKey, Holding
<1>7. RenewInv /\ NewInv
  BY <1>1, <1>3, CredFields, OffIs DEF RenewInv, Alive, NewInv, OnlyWith, Holding, Saving
<1> QED
  BY <1>2, <1>4, <1>5, <1>6, <1>7 DEF CredInv

(* A program leaves off what it was about: what it brought is written, or   *)
(* counts as wasted.                                                        *)
LEMMA LeaveStep ==
  ASSUME CredInv, NEW p \in Programs, prog' \in [Programs -> Progs], \A q \in Programs \ {p} : prog'[q] = prog[q],
         Blank(prog'[p]), prog'[p].at \in {"off", "ready", "resolve"},
         store' \in {store, Garbled}, store' = Garbled => clashed' = Providers,
         prog[p].at = "write" => clashed' = Providers, clashed' \in {clashed, Providers},
         legacy' \in GoodCreds, secrets' \in secrets..MaxSecrets, unexpired' \subseteq 1..secrets', handed' = handed,
         renewable' \subseteq renewable, \A r \in renewable \ renewable' : r = prog[p].old /\ r \in wasted',
         wasted \subseteq wasted', Saving(p) => prog[p].old \in wasted' \cup {0},
         UNCHANGED <<overtaken, entered>>
  PROVE  CredInv'
<1>0. CredTypes /\ secrets \in 0..MaxSecrets /\ MaxSecrets \in Nat /\ secrets <= secrets' /\ secrets' \in 0..MaxSecrets
  BY CredentialsAssumption DEF CredInv, CredTypes
<1>1. CredTypes'
  <2>1. store' \in Stores /\ clashed' \subseteq Providers
    BY <1>0, CredFields DEF CredTypes
  <2>2. renewable' \subseteq 1..secrets' /\ handed' \subseteq 1..secrets'
    BY <1>0 DEF CredTypes
  <2> QED
    BY <1>0, <2>1, <2>2 DEF CredTypes
<1>2. /\ ~Saving(p)' /\ ~Holding(p)' /\ \A q \in Programs \ {p} : Saving(q)' = Saving(q) /\ Holding(q)' = Holding(q)
      /\ prog'[p].cred = NoCred /\ prog'[p].base.creds = EmptyStore.creds /\ prog'[p].old = 0
  BY DEF Saving, Holding, Blank
<1>3. \A v \in Providers : store'.creds[v] \in {store.creds[v], NoCred}
  BY CredFields
<1>4. FitsInv'
  <2>1. \A cred \in GoodCreds : Fits(cred) => Fits(cred)'
    BY <1>0 DEF Fits, GoodCreds, Creds
  <2>2. Fits(NoCred)'
    BY <1>0, CredFields DEF Fits, CredTypes
  <2>3. \A v \in Providers : Fits(store.creds[v])' /\ \A q \in Programs : Fits(prog[q].base.creds[v])'
    <3>1. ASSUME NEW v \in Providers PROVE Fits(store.creds[v])'
      <4>1. store.creds[v] \in GoodCreds /\ Fits(store.creds[v])
        BY <1>0 DEF CredTypes, Stores, CredInv, FitsInv
      <4> QED
        BY <1>0, <1>3, <2>2, <4>1, CredFields DEF Fits, GoodCreds, Creds
    <3>2. ASSUME NEW v \in Providers, NEW q \in Programs \ {p} PROVE Fits(prog[q].base.creds[v])'
      <4>1. prog[q].base.creds[v] \in GoodCreds /\ Fits(prog[q].base.creds[v])
        BY <1>0 DEF CredTypes, Progs, Stores, CredInv, FitsInv
      <4> QED
        BY <1>0, <4>1 DEF Fits, GoodCreds, Creds
    <3>3. ASSUME NEW v \in Providers PROVE Fits(prog[p].base.creds[v])'
      BY <1>0, <1>2, <2>2, CredFields DEF Fits
    <3> QED
      BY <3>1, <3>2, <3>3
  <2>4. ASSUME NEW q \in Programs PROVE Fits(prog[q].cred)' /\ prog'[q].old <= secrets'
    <3>1. CASE q = p
      BY <1>0, <1>2, <2>2, <3>1 DEF Fits
    <3>2. CASE q # p
      <4>1. prog[q].cred \in GoodCreds /\ Fits(prog[q].cred) /\ prog[q].old \in 0..MaxSecrets /\ prog[q].old <= secrets
        BY <1>0 DEF CredTypes, Progs, CredInv, FitsInv
      <4> QED
        BY <1>0, <3>2, <4>1 DEF Fits, GoodCreds, Creds
    <3> QED
      BY <3>1, <3>2
  <2> QED
    BY <2>3, <2>4 DEF FitsInv
<1>5. PlansInv'
  <2>1. Planned(p)'
    BY <1>2, CredFields DEF Planned
  <2>2. \A q \in Programs \ {p} : Planned(q)'
    BY DEF CredInv, PlansInv, Planned, Saving
  <2> QED
    BY <1>3, <2>1, <2>2, CredFields DEF CredInv, PlansInv
<1>6. KeyInv'
  <2>1. CASE clashed' = Providers
    BY <2>1 DEF KeyInv
  <2>2. CASE clashed' # Providers
    <3>1. store' = store /\ clashed' = clashed /\ prog[p].at # "write"
      BY <2>2
    <3> QED
      BY <1>2, <3>1 DEF CredInv, KeyInv, HasKey, Readable, Holding
  <2> QED
    BY <2>1, <2>2
<1>7. \A r : Alive(r) => Alive(r)'
  BY <1>2 DEF Alive
<1>8. RenewInv'
  <2>1. ASSUME NEW q \in Programs, Saving(q)' PROVE prog'[q].cred.refresh \in renewable' \cup {0}
    <3>1. q # p /\ Saving(q) /\ prog'[q] = prog[q]
      BY <1>2, <2>1
    <3>2. prog[q].cred.refresh # 0 => prog[p].old # prog[q].cred.refresh
      BY <3>1 DEF CredInv, NewInv, OnlyWith
    <3> QED
      BY <3>1, <3>2 DEF CredInv, RenewInv
  <2>2. ASSUME Readable', "anthropic" \notin clashed' PROVE Alive(store.creds["anthropic"].refresh)'
    <3>1. store' = store /\ Readable /\ "anthropic" \notin clashed
      BY <2>2, CredFields DEF Readable
    <3>2. Alive(store.creds["anthropic"].refresh)
      BY <3>1 DEF CredInv, RenewInv
    <3> QED
      BY <1>7, <3>1, <3>2 DEF Alive
  <2>3. ASSUME NEW q \in Programs, Holding(q)', "anthropic" \notin clashed'
        PROVE  "anthropic" \in overtaken'[q] \/ Alive(prog[q].base.creds["anthropic"].refresh)'
    <3>1. q # p /\ Holding(q) /\ prog'[q] = prog[q] /\ "anthropic" \notin clashed
      BY <1>2, <2>3, CredFields
    <3>2. "anthropic" \in overtaken[q] \/ Alive(prog[q].base.creds["anthropic"].refresh)
      BY <3>1 DEF CredInv, RenewInv
    <3> QED
      BY <1>7, <3>1, <3>2 DEF Alive
  <2> QED
    BY <2>1, <2>2, <2>3 DEF RenewInv
<1>9. NewInv'
  <2>1. ASSUME NEW q \in Programs, Saving(q)', prog'[q].cred.refresh # 0 PROVE OnlyWith(q)'
    <3>1. q # p /\ Saving(q) /\ prog'[q] = prog[q] /\ OnlyWith(q)
      BY <1>2, <2>1 DEF CredInv, NewInv
    <3>2. store'.creds["anthropic"].refresh # prog[q].cred.refresh
      BY <1>3, <2>1, <3>1, CredFields DEF OnlyWith
    <3>3. ASSUME NEW d \in Programs
          PROVE  prog'[d].old # prog[q].cred.refresh /\ prog'[d].base.creds["anthropic"].refresh # prog[q].cred.refresh
      BY <1>2, <2>1, <3>1, CredFields DEF OnlyWith
    <3>4. ASSUME NEW d \in Programs \ {q}, Saving(d)' PROVE prog'[d].cred.refresh # prog[q].cred.refresh
      BY <1>2, <2>1, <3>1, <3>4 DEF OnlyWith
    <3> QED
      BY <3>1, <3>2, <3>3, <3>4 DEF OnlyWith
  <2> QED
    BY <2>1 DEF NewInv, OnlyWith
<1> QED
  BY <1>1, <1>4, <1>5, <1>6, <1>8, <1>9 DEF CredInv

(* A program goes on, and the file is at most emptied. *)
LEMMA GoesOnStep ==
  ASSUME CredInv, NEW p \in Programs, prog' \in [Programs -> Progs], \A q \in Programs \ {p} : prog'[q] = prog[q],
         Planned(p)', prog[p].at # "write", store' = store \/ (store' = Truncated /\ prog'[p].at = "write"),
         secrets' \in secrets..MaxSecrets, unexpired' \subseteq 1..secrets', renewable' \subseteq 1..secrets',
         handed \subseteq handed', \A r \in handed' \ handed : r \in (secrets + 1)..secrets',
         \A r \in renewable \ renewable' : r = prog[p].old /\ Saving(p)' /\ r = prog'[p].old,
         Saving(p) => Saving(p)' /\ prog'[p].old = prog[p].old,
         Fits(prog[p].cred)', \A v \in Providers : Fits(prog[p].base.creds[v])', prog'[p].old <= secrets',
         Holding(p)' => \A v \in Providers \ clashed : v \in overtaken'[p] \/ HasKey(prog[p].base.creds, v)',
         Holding(p)' /\ "anthropic" \notin clashed =>
           "anthropic" \in overtaken'[p] \/ Alive(prog[p].base.creds["anthropic"].refresh)',
         Saving(p)' => prog'[p].cred.refresh \in renewable' \cup {0},
         OnlyWith(p)',
         \A q \in Programs \ {p} : Saving(q) /\ prog[q].cred.refresh # 0 =>
           /\ prog'[p].old # prog[q].cred.refresh
           /\ prog'[p].base.creds["anthropic"].refresh # prog[q].cred.refresh
           /\ Saving(p)' => prog'[p].cred.refresh # prog[q].cred.refresh,
         overtaken' \in [Programs -> SUBSET Providers], \A q \in Programs \ {p} : overtaken'[q] = overtaken[q],
         UNCHANGED <<legacy, wasted, clashed, entered>>
  PROVE  CredInv'
<1>0. CredTypes /\ secrets \in 0..MaxSecrets /\ MaxSecrets \in Nat /\ secrets <= secrets' /\ secrets' \in 0..MaxSecrets
  BY CredentialsAssumption DEF CredInv, CredTypes
<1>1. CredTypes'
  <2>1. store' \in Stores
    BY <1>0, CredFields DEF CredTypes
  <2>2. handed' \subseteq 1..secrets'
    BY <1>0 DEF CredTypes
  <2> QED
    BY <1>0, <2>1, <2>2 DEF CredTypes
<1>2. \A q \in Programs \ {p} : (Saving(q)' <=> Saving(q)) /\ (Holding(q)' <=> Holding(q))
  BY DEF Saving, Holding
<1>3. \A v \in Providers : store'.creds[v] \in {store.creds[v], NoCred}
  BY CredFields
<1>4. FitsInv'
  <2>1. ASSUME NEW cred \in GoodCreds, cred.key <= secrets, cred.refresh <= secrets, cred.refresh = 0 => cred.key \notin handed
        PROVE  cred.key <= secrets' /\ cred.refresh <= secrets' /\ (cred.refresh = 0 => cred.key \notin handed')
    BY <1>0, <2>1 DEF GoodCreds, Creds
  <2>2. \A v \in Providers : Fits(store.creds[v])'
    <3>1. ASSUME NEW v \in Providers PROVE Fits(store.creds[v])'
      <4>1. store.creds[v] \in GoodCreds /\ Fits(store.creds[v])
        BY <1>0 DEF CredTypes, Stores, CredInv, FitsInv
      <4>2. 0 <= secrets /\ 0 \notin handed
        BY <1>0 DEF CredTypes
      <4>3. PICK cred \in GoodCreds : cred = store'.creds[v]
        BY <1>3, <4>1, CredFields
      <4>4. cred.key <= secrets /\ cred.refresh <= secrets /\ (cred.refresh = 0 => cred.key \notin handed)
        BY <1>3, <4>1, <4>2, <4>3, CredFields DEF Fits
      <4> QED
        BY <2>1, <4>3, <4>4 DEF Fits
    <3> QED
      BY <3>1
  <2>3. ASSUME NEW q \in Programs \ {p}
        PROVE  (\A v \in Providers : Fits(prog[q].base.creds[v])') /\ Fits(prog[q].cred)' /\ prog'[q].old <= secrets'
    <3>1. prog[q].cred \in GoodCreds /\ Fits(prog[q].cred) /\ prog[q].old \in 0..MaxSecrets /\ prog[q].old <= secrets
      BY <1>0 DEF CredTypes, Progs, CredInv, FitsInv
    <3>2. Fits(prog[q].cred)'
      BY <2>1, <3>1 DEF Fits
    <3>3. ASSUME NEW v \in Providers PROVE Fits(prog[q].base.creds[v])'
      <4>1. prog[q].base.creds[v] \in GoodCreds /\ Fits(prog[q].base.creds[v])
        BY <1>0 DEF CredTypes, Progs, Stores, CredInv, FitsInv
      <4> QED
        BY <2>1, <4>1 DEF Fits
    <3>4. prog'[q].old <= secrets'
      BY <1>0, <3>1
    <3> QED
      BY <3>2, <3>3, <3>4
  <2> QED
    BY <2>2, <2>3 DEF FitsInv
<1>5. PlansInv'
  <2>1. \A q \in Programs \ {p} : Planned(q)'
    BY DEF CredInv, PlansInv, Planned, Saving
  <2> QED
    BY <1>3, <2>1, CredFields DEF CredInv, PlansInv
<1>6. KeyInv'
  <2>1. \A q \in Programs \ {p} : prog[q].at = "write" => prog'[q].at = "write"
    OBVIOUS
  <2>2. CASE store' = store
    BY <1>2, <2>1, <2>2 DEF CredInv, KeyInv, HasKey, Readable
  <2>3. CASE store' = Truncated /\ prog'[p].at = "write"
    BY <1>2, <2>3, CredFields DEF CredInv, KeyInv, HasKey, Readable
  <2> QED
    BY <2>2, <2>3
<1>7. ASSUME NEW r, Alive(r) PROVE Alive(r)'
  <2>1. CASE r \in renewable
    BY <2>1 DEF Alive
  <2>2. CASE r = 0 \/ r \in wasted
    BY <2>2 DEF Alive
  <2>3. ASSUME NEW q \in Programs, Saving(q), prog[q].old = r PROVE Alive(r)'
    BY <1>2, <2>3 DEF Alive
  <2> QED
    BY <1>7, <2>1, <2>2, <2>3 DEF Alive
<1>8. RenewInv'
  <2>1. ASSUME NEW q \in Programs, Saving(q)' PROVE prog'[q].cred.refresh \in renewable' \cup {0}
    <3>1. CASE q # p
      <4>1. Saving(q) /\ prog'[q] = prog[q] /\ OnlyWith(q)
        BY <1>2, <2>1, <3>1 DEF CredInv, NewInv
      <4>2. prog[q].cred.refresh # 0 => prog[p].old # prog[q].cred.refresh
        BY <4>1 DEF OnlyWith
      <4> QED
        BY <4>1, <4>2 DEF CredInv, RenewInv
    <3> QED
      BY <2>1, <3>1
  <2>2. ASSUME Readable', "anthropic" \notin clashed' PROVE Alive(store.creds["anthropic"].refresh)'
    <3>1. store' = store /\ Readable /\ "anthropic" \notin clashed
      BY <2>2, CredFields DEF Readable
    <3>2. PICK r : r = store.creds["anthropic"].refresh
      OBVIOUS
    <3>3. Alive(r)
      BY <3>1, <3>2 DEF CredInv, RenewInv
    <3>4. Alive(r)'
      BY <1>7, <3>3
    <3> QED
      BY <3>1, <3>2, <3>4 DEF Alive
  <2>3. ASSUME NEW q \in Programs, Holding(q)', "anthropic" \notin clashed'
        PROVE  "anthropic" \in overtaken'[q] \/ Alive(prog[q].base.creds["anthropic"].refresh)'
    <3>1. CASE q = p
      BY <2>3, <3>1
    <3>2. CASE q # p
      <4>1. Holding(q) /\ prog'[q] = prog[q] /\ "anthropic" \notin clashed /\ overtaken'[q] = overtaken[q]
        BY <1>2, <2>3, <3>2
      <4>2. PICK r : r = prog[q].base.creds["anthropic"].refresh
        OBVIOUS
      <4>3. "anthropic" \in overtaken[q] \/ Alive(r)
        BY <4>1, <4>2 DEF CredInv, RenewInv
      <4>4. Alive(r) => Alive(r)'
        BY <1>7
      <4> QED
        BY <4>1, <4>2, <4>3, <4>4 DEF Alive
    <3> QED
      BY <3>1, <3>2
  <2> QED
    BY <2>1, <2>2, <2>3 DEF RenewInv
<1>9. NewInv'
  <2>1. ASSUME NEW q \in Programs \ {p}, Saving(q)', prog'[q].cred.refresh # 0 PROVE OnlyWith(q)'
    <3>1. Saving(q) /\ prog'[q] = prog[q] /\ OnlyWith(q)
      BY <1>2, <2>1 DEF CredInv, NewInv
    <3>2. store'.creds["anthropic"].refresh # prog[q].cred.refresh
      BY <1>3, <2>1, <3>1, CredFields DEF OnlyWith
    <3>3. ASSUME NEW d \in Programs
          PROVE  prog'[d].old # prog[q].cred.refresh /\ prog'[d].base.creds["anthropic"].refresh # prog[q].cred.refresh
      BY <2>1, <3>1 DEF OnlyWith
    <3>4. ASSUME NEW d \in Programs \ {q}, Saving(d)' PROVE prog'[d].cred.refresh # prog[q].cred.refresh
      BY <1>2, <2>1, <3>1, <3>4 DEF OnlyWith
    <3> QED
      BY <3>1, <3>2, <3>3, <3>4 DEF OnlyWith
  <2>2. \A q \in Programs \ {p} : OnlyWith(q)'
    BY <2>1 DEF OnlyWith
  <2> QED
    BY <2>2 DEF NewInv
<1> QED
  BY <1>1, <1>4, <1>5, <1>6, <1>8, <1>9 DEF CredInv

(* What a program does next, and with which credential. *)
Onward(f, at, cred) == [f EXCEPT !.at = at, !.cred = cred]
LoggingIn(f, at, v) == [f EXCEPT !.at = at, !.login = TRUE, !.target = v]

LEMMA NextIs ==
  ASSUME NEW f \in Progs, NEW at \in ProgSteps, NEW cred \in GoodCreds, NEW g, g = Onward(f, at, cred)
  PROVE  /\ g \in Progs /\ g.at = at /\ g.cred = cred /\ g.base = f.base /\ g.old = f.old /\ g.target = f.target
         /\ g.login = f.login
<1>s. PICK one : one = [f EXCEPT !.at = at]
  OBVIOUS
<1>1. one \in Progs /\ one.at = at /\ one.base = f.base /\ one.old = f.old /\ one.target = f.target /\ one.login = f.login
  BY <1>s DEF Progs
<1>2. g = [one EXCEPT !.cred = cred]
  BY <1>s DEF Onward
<1> QED
  BY <1>1, <1>2 DEF Progs

LEMMA LoginIs ==
  ASSUME NEW f \in Progs, NEW at \in ProgSteps, NEW v \in Providers \cup {"none"}, NEW g, g = LoggingIn(f, at, v)
  PROVE  /\ g \in Progs /\ g.at = at /\ g.cred = f.cred /\ g.base = f.base /\ g.old = f.old /\ g.target = v
         /\ g.login
<1>s. PICK one : one = [f EXCEPT !.at = at]
  OBVIOUS
<1>t. PICK two : two = [one EXCEPT !.login = TRUE]
  OBVIOUS
<1>1. one \in Progs /\ one.at = at /\ one.base = f.base /\ one.old = f.old /\ one.cred = f.cred
  BY <1>s DEF Progs
<1>2. two \in Progs /\ two.at = at /\ two.base = f.base /\ two.old = f.old /\ two.cred = f.cred /\ two.login
  BY <1>1, <1>t DEF Progs
<1>3. g = [two EXCEPT !.target = v]
  BY <1>s, <1>t DEF LoggingIn
<1> QED
  BY <1>2, <1>3 DEF Progs

(* The next secret is nobody's yet. *)
LEMMA NextIsNew ==
  ASSUME CredInv
  PROVE  /\ secrets \in Nat /\ store.creds["anthropic"].refresh # secrets + 1
         /\ \A p \in Programs : /\ prog[p].old # secrets + 1 /\ prog[p].base.creds["anthropic"].refresh # secrets + 1
                                /\ prog[p].cred.refresh # secrets + 1
<1>1. secrets \in Nat /\ secrets \in 0..MaxSecrets /\ MaxSecrets \in Nat /\ store \in Stores /\ prog \in [Programs -> Progs]
  BY CredentialsAssumption DEF CredInv, CredTypes
<1>2. \A cred \in GoodCreds : Fits(cred) => cred.refresh # secrets + 1
  BY <1>1 DEF Fits, GoodCreds, Creds
<1>3. store.creds["anthropic"] \in GoodCreds /\ Fits(store.creds["anthropic"])
  BY <1>1, CredFields DEF Stores, CredInv, FitsInv
<1>4. ASSUME NEW p \in Programs
      PROVE  /\ prog[p].old # secrets + 1 /\ prog[p].base.creds["anthropic"].refresh # secrets + 1
             /\ prog[p].cred.refresh # secrets + 1
  <2>1. prog[p].old \in 0..MaxSecrets /\ prog[p].old <= secrets
    BY <1>1 DEF Progs, CredInv, FitsInv
  <2>2. prog[p].base.creds["anthropic"] \in GoodCreds /\ Fits(prog[p].base.creds["anthropic"])
    BY <1>1, CredFields DEF Progs, Stores, CredInv, FitsInv
  <2>3. prog[p].cred \in GoodCreds /\ Fits(prog[p].cred)
    BY <1>1 DEF Progs, CredInv, FitsInv
  <2> QED
    BY <1>1, <1>2, <2>1, <2>2, <2>3
<1> QED
  BY <1>1, <1>2, <1>3, <1>4

(* What p had read before fits still when there is one more secret. *)
LEMMA StillFits ==
  ASSUME CredInv, NEW p \in Programs, secrets' \in secrets..MaxSecrets,
         \A r \in handed' \ handed : r \in (secrets + 1)..secrets'
  PROVE  /\ \A v \in Providers : /\ prog[p].base.creds[v].key <= secrets' /\ prog[p].base.creds[v].refresh <= secrets'
                                 /\ prog[p].base.creds[v].refresh = 0 => prog[p].base.creds[v].key \notin handed'
         /\ prog[p].cred.key <= secrets' /\ prog[p].cred.refresh <= secrets'
         /\ prog[p].cred.refresh = 0 => prog[p].cred.key \notin handed'
         /\ prog[p].old <= secrets'
<1>0. secrets \in Nat /\ secrets' \in Nat /\ secrets <= secrets' /\ prog \in [Programs -> Progs] /\ MaxSecrets \in Nat
  BY CredentialsAssumption DEF CredInv, CredTypes
<1>1. ASSUME NEW cred \in GoodCreds, Fits(cred)
      PROVE  cred.key <= secrets' /\ cred.refresh <= secrets' /\ (cred.refresh = 0 => cred.key \notin handed')
  BY <1>0, <1>1 DEF Fits, GoodCreds, Creds
<1>2. \A v \in Providers : prog[p].base.creds[v] \in GoodCreds /\ Fits(prog[p].base.creds[v])
  BY <1>0 DEF Progs, Stores, CredInv, FitsInv
<1>3. prog[p].cred \in GoodCreds /\ Fits(prog[p].cred) /\ prog[p].old \in 0..MaxSecrets /\ prog[p].old <= secrets
  BY <1>0 DEF Progs, CredInv, FitsInv
<1>4. prog[p].old <= secrets'
  BY <1>0, <1>3
<1> QED
  BY <1>1, <1>2, <1>3, <1>4

(* The endpoint answers a program that refreshes or logs in. *)
LEMMA AnswerStep ==
  ASSUME CredInv, NEW p \in Programs, prog[p].at \in {"refresh", "flow"}, NEW refreshable \in BOOLEAN, Answer(p, refreshable),
         UNCHANGED <<store, legacy, logins, overtaken, clashed, entered>>
  PROVE  CredInv'
<1> DEFINE new == [method |-> "oauth", key |-> secrets + 1, refresh |-> IF refreshable THEN secrets + 1 ELSE 0]
           next == IF prog[p].target = "none" THEN "save_legacy" ELSE "load"
           what == [prog[p] EXCEPT !.at = next, !.cred = new]
<1>0. /\ CredTypes /\ MaxSecrets \in Nat /\ secrets \in 0..MaxSecrets /\ prog \in [Programs -> Progs] /\ prog[p] \in Progs
      /\ Planned(p) /\ ~Saving(p)
  BY CredentialsAssumption DEF CredInv, CredTypes, PlansInv, Saving
<1>1. /\ secrets < MaxSecrets /\ secrets' = secrets + 1 /\ unexpired' = unexpired \cup {secrets + 1}
      /\ renewable' = IF refreshable THEN (renewable \ {prog[p].old}) \cup {secrets + 1} ELSE renewable
      /\ handed' = IF refreshable THEN handed \cup {secrets + 1} ELSE handed
      /\ Becomes(p, what) /\ UNCHANGED wasted
  BY DEF Answer
<1>2. new \in GoodCreds /\ new.method = "oauth" /\ new.key = secrets + 1 /\ new.refresh \in {0, secrets + 1}
      /\ (new.refresh # 0 <=> refreshable)
  BY <1>0, <1>1 DEF Creds, GoodCreds
<1>3. next \in ProgSteps /\ next \in {"load", "save_legacy"}
  BY DEF ProgSteps
<1>4. /\ prog[p].target = "anthropic" \/ (prog[p].target = "none" /\ prog[p].at = "flow" /\ prog[p].old = 0 /\ prog[p].login)
      /\ next = "load" <=> prog[p].target = "anthropic"
  BY <1>0 DEF Planned
<1>5. what \in Progs /\ what.at = next /\ what.cred = new /\ what.base = prog[p].base /\ what.old = prog[p].old
      /\ what.target = prog[p].target /\ what.login = prog[p].login
  <2>1. PICK g : g = [prog[p] EXCEPT !.at = next, !.cred = new]
    OBVIOUS
  <2>2. PICK at \in ProgSteps : at = next
    BY <1>3
  <2>3. PICK cred \in GoodCreds : cred = new
    BY <1>2
  <2> HIDE DEF next, new
  <2>f. PICK f \in Progs : f = prog[p]
    BY <1>0
  <2>4. g = Onward(f, at, cred)
    BY <2>1, <2>2, <2>3, <2>f DEF Onward
  <2>5. /\ g \in Progs /\ g.at = at /\ g.cred = cred /\ g.base = f.base /\ g.old = f.old /\ g.target = f.target
        /\ g.login = f.login
    BY <2>4, NextIs
  <2> QED
    BY <2>1, <2>2, <2>3, <2>5, <2>f
<1> HIDE DEF next, new, what
<1>6. prog' \in [Programs -> Progs] /\ prog'[p] = what /\ \A q \in Programs \ {p} : prog'[q] = prog[q]
  BY <1>0, <1>1, <1>5, BecomesIs
<1>7. secrets' \in secrets..MaxSecrets /\ unexpired' \subseteq 1..secrets' /\ renewable' \subseteq 1..secrets'
  <2>1. unexpired \subseteq 1..secrets /\ renewable \subseteq 1..secrets /\ secrets + 1 \in 1..(secrets + 1)
        /\ 1..secrets \subseteq 1..(secrets + 1) /\ secrets + 1 \in secrets..MaxSecrets
    BY <1>0, <1>1 DEF CredTypes
  <2> QED
    BY <1>1, <2>1
<1>8. handed \subseteq handed' /\ \A r \in handed' \ handed : r \in (secrets + 1)..secrets'
  BY <1>0, <1>1
<1>9. Planned(p)' /\ ~Holding(p)' /\ (Saving(p)' <=> next = "load")
  BY <1>0, <1>2, <1>3, <1>4, <1>5, <1>6, CredFields DEF Planned, Saving, Holding
<1>10. \A r \in renewable \ renewable' : r = prog[p].old /\ Saving(p)' /\ r = prog'[p].old
  <2>1. 0 \notin renewable
    BY <1>0 DEF CredTypes
  <2> QED
    BY <1>1, <1>4, <1>5, <1>6, <1>9, <2>1
<1>11. Fits(prog[p].cred)'
  BY <1>0, <1>1, <1>2, <1>5, <1>6 DEF Fits, CredTypes
<1>12. (\A v \in Providers : Fits(prog[p].base.creds[v])') /\ prog'[p].old <= secrets'
  BY <1>5, <1>6, <1>7, <1>8, StillFits DEF Fits
<1>13. Saving(p)' => prog'[p].cred.refresh \in renewable' \cup {0}
  BY <1>1, <1>2, <1>5, <1>6
<1>14. OnlyWith(p)'
  <2>1. \A q \in Programs : prog'[q].old # secrets + 1 /\ prog'[q].base.creds["anthropic"].refresh # secrets + 1
    BY <1>5, <1>6, NextIsNew
  <2>2. \A q \in Programs \ {p} : prog'[q].cred.refresh # secrets + 1
    BY <1>6, NextIsNew
  <2>3. store'.creds["anthropic"].refresh # secrets + 1
    BY NextIsNew
  <2> QED
    BY <1>2, <1>5, <1>6, <2>1, <2>2, <2>3 DEF OnlyWith
<1>15. ASSUME NEW q \in Programs \ {p}, Saving(q), prog[q].cred.refresh # 0
       PROVE  /\ prog'[p].old # prog[q].cred.refresh
              /\ prog'[p].base.creds["anthropic"].refresh # prog[q].cred.refresh
              /\ prog'[p].cred.refresh # prog[q].cred.refresh
  <2>1. prog[p].old # prog[q].cred.refresh /\ prog[p].base.creds["anthropic"].refresh # prog[q].cred.refresh
    BY <1>15 DEF CredInv, NewInv, OnlyWith
  <2>2. prog[q].cred.refresh # secrets + 1
    BY NextIsNew
  <2> QED
    BY <1>2, <1>5, <1>6, <1>15, <2>1, <2>2
<1>16. /\ overtaken' \in [Programs -> SUBSET Providers] /\ \A q \in Programs : overtaken'[q] = overtaken[q]
       /\ store' = store /\ UNCHANGED <<legacy, wasted, clashed, entered>> /\ prog[p].at # "write"
  BY <1>0, <1>1 DEF CredTypes
<1> QED
  BY <1>0, <1>6, <1>7, <1>8, <1>9, <1>10, <1>11, <1>12, <1>13, <1>14, <1>15, <1>16, GoesOnStep

LEMMA ResolveStep == ASSUME CredInv, NEW p \in Programs, ResolveCredentials(p) PROVE CredInv'
<1> DEFINE now == LoadCredentialStore
           active == IF now.active = "none" THEN "anthropic" ELSE now.active
           cred == now.creds[active]
           what == [Off EXCEPT !.at = "refresh", !.old = cred.refresh, !.target = active]
<1>0. /\ CredTypes /\ prog \in [Programs -> Progs] /\ prog[p].at = "resolve" /\ MaxSecrets \in Nat /\ secrets \in 0..MaxSecrets
      /\ UNCHANGED <<store, legacy, secrets, unexpired, renewable, handed, wasted, logins, overtaken, clashed, entered>>
      /\ Planned(p) /\ ~Saving(p)
  BY CredentialsAssumption DEF CredInv, CredTypes, ResolveCredentials, secretVars, PlansInv, Saving
<1>1. now \in Stores /\ now.creds["openai"].method # "oauth" /\ now.active \notin {"truncated", "torn"}
      /\ now.creds["anthropic"].refresh \in {0, store.creds["anthropic"].refresh}
  BY CredFields DEF LoadCredentialStore, Readable, CredInv, CredTypes, PlansInv
<1>2. active \in Providers
  BY <1>1, CredFields DEF Stores
<1>3. cred \in GoodCreds
  BY <1>1, <1>2 DEF Stores
<1>4. cred.method \in {"none", "api_key", "oauth"} /\ (cred.method # "none" => cred.key \in 1..MaxSecrets)
      /\ (cred.method = "oauth" => active = "anthropic") /\ cred.refresh \in 0..MaxSecrets
  BY <1>0, <1>1, <1>2, <1>3 DEF GoodCreds, Creds, Providers
<1>5. \/ \E v \in Providers, key \in 1..MaxSecrets : Adopt(p, v, key)
      \/ active = "anthropic" /\ Becomes(p, what)
      \/ Ready(p, NoSession)
  <2>1. unexpired \subseteq 1..MaxSecrets
    BY <1>0 DEF CredTypes
  <2>2. \/ cred.method = "api_key" /\ Adopt(p, active, cred.key)
        \/ cred.method = "oauth" /\ Adopt(p, active, cred.key)
        \/ cred.method = "oauth" /\ Becomes(p, what)
        \/ legacy.key \in unexpired /\ Adopt(p, "anthropic", legacy.key)
        \/ Ready(p, NoSession)
    BY DEF ResolveCredentials
  <2> HIDE DEF now, active, cred, what
  <2> QED
    BY <1>2, <1>4, <2>1, <2>2, CredFields
<1>6. ASSUME prog' \in [Programs -> Progs], \A q \in Programs \ {p} : prog'[q] = prog[q], prog'[p].at = "ready", Blank(prog'[p])
      PROVE  CredInv'
  <2>1. /\ store' \in {store, Garbled} /\ (store' = Garbled => clashed' = Providers) /\ legacy' \in GoodCreds
        /\ secrets' \in secrets..MaxSecrets /\ unexpired' \subseteq 1..secrets'
    BY <1>0, CredFields DEF CredInv, KeyInv, CredTypes
  <2>2. renewable' \subseteq renewable /\ renewable \ renewable' = {} /\ wasted \subseteq wasted'
    BY <1>0
  <2> QED
    BY <1>0, <1>6, <2>1, <2>2, LeaveStep
<1>7. CASE \E v \in Providers, key \in 1..MaxSecrets : Adopt(p, v, key)
  BY <1>0, <1>6, <1>7, AdoptIs
<1>8. CASE Ready(p, NoSession)
  <2>1. NoSession \in Sessions
    BY DEF Sessions
  <2> QED
    BY <1>0, <1>6, <1>8, <2>1, ReadyIs
<1>9. CASE active = "anthropic" /\ Becomes(p, what)
  <2>0. cred.refresh \in {0, store.creds["anthropic"].refresh}
    BY <1>1, <1>9
  <2>s. PICK one : one = [Off EXCEPT !.at = "refresh"]
    OBVIOUS
  <2>t. PICK two : two = [one EXCEPT !.old = cred.refresh]
    OBVIOUS
  <2>1. one \in Progs /\ one.at = "refresh" /\ one.base = EmptyStore /\ one.cred = NoCred
    BY <2>s, OffIs DEF Progs, ProgSteps
  <2>2. two \in Progs /\ two.at = "refresh" /\ two.base = EmptyStore /\ two.cred = NoCred /\ two.old = cred.refresh
    <3>1. PICK old \in 0..MaxSecrets : old = cred.refresh
      BY <1>4
    <3>2. two = [one EXCEPT !.old = old]
      BY <2>t, <3>1
    <3> HIDE DEF now, active, cred
    <3> QED
      BY <2>1, <3>1, <3>2 DEF Progs
  <2>3. what \in Progs /\ what.at = "refresh" /\ what.base = EmptyStore /\ what.cred = NoCred /\ what.old = cred.refresh
        /\ what.target = "anthropic"
    <3>1. what = [two EXCEPT !.target = "anthropic"]
      BY <1>9, <2>s, <2>t
    <3> HIDE DEF now, active, cred, what
    <3> QED
      BY <2>2, <3>1, CredFields DEF Progs
  <2> HIDE DEF now, active, cred, what
  <2>4. prog' \in [Programs -> Progs] /\ prog'[p] = what /\ \A q \in Programs \ {p} : prog'[q] = prog[q]
    BY <1>0, <1>9, <2>3, BecomesIs
  <2>5. Planned(p)' /\ ~Holding(p)' /\ ~Saving(p)'
    BY <2>3, <2>4, CredFields DEF Planned, Saving, Holding
  <2>6. store.creds["anthropic"] \in GoodCreds /\ Fits(store.creds["anthropic"])
    BY <1>0, CredFields DEF CredTypes, Stores, CredInv, FitsInv
  <2>7. Fits(prog[p].cred)' /\ (\A v \in Providers : Fits(prog[p].base.creds[v])') /\ prog'[p].old <= secrets'
    <3>1. 0 <= secrets /\ 0 \notin handed
      BY <1>0 DEF CredTypes
    <3> QED
      BY <1>0, <2>0, <2>3, <2>4, <2>6, <3>1, CredFields DEF Fits
  <2>8. ASSUME NEW q \in Programs \ {p}, Saving(q), prog[q].cred.refresh # 0
        PROVE  /\ prog'[p].old # prog[q].cred.refresh
               /\ prog'[p].base.creds["anthropic"].refresh # prog[q].cred.refresh
    <3>1. store.creds["anthropic"].refresh # prog[q].cred.refresh
      BY <2>8 DEF CredInv, NewInv, OnlyWith
    <3> QED
      BY <2>0, <2>3, <2>4, <2>8, <3>1, CredFields
  <2>9. OnlyWith(p)'
    BY <2>5 DEF OnlyWith
  <2>10. /\ overtaken' \in [Programs -> SUBSET Providers] /\ \A q \in Programs : overtaken'[q] = overtaken[q]
         /\ store' = store /\ UNCHANGED <<legacy, wasted, clashed, entered>> /\ prog[p].at # "write"
         /\ secrets' \in secrets..MaxSecrets /\ unexpired' \subseteq 1..secrets' /\ renewable' \subseteq 1..secrets'
         /\ handed \subseteq handed' /\ handed' \ handed = {} /\ renewable \ renewable' = {}
    BY <1>0 DEF CredTypes
  <2> QED
    BY <1>0, <2>4, <2>5, <2>7, <2>8, <2>9, <2>10, GoesOnStep
<1> QED
  BY <1>5, <1>7, <1>8, <1>9

LEMMA BeginLoginStep == ASSUME CredInv, NEW p \in Programs, BeginLogin(p) PROVE CredInv'
<1>0. /\ CredTypes /\ prog \in [Programs -> Progs] /\ prog[p] \in Progs /\ prog[p].at = "ready"
      /\ MaxSecrets \in Nat /\ secrets \in 0..MaxSecrets
      /\ UNCHANGED <<store, legacy, unexpired, renewable, handed, wasted, overtaken, clashed, entered>>
      /\ Planned(p) /\ ~Saving(p) /\ prog[p].old = 0
  BY CredentialsAssumption DEF CredInv, CredTypes, BeginLogin, PlansInv, Planned, Saving
<1>b. ASSUME NEW q \in Programs \ {p}, Saving(q), prog[q].cred.refresh # 0
      PROVE  prog[p].base.creds["anthropic"].refresh # prog[q].cred.refresh
  BY <1>b DEF CredInv, NewInv, OnlyWith
<1>c. ASSUME NEW one \in Progs, one.base = prog[p].base, one.old = 0, one.at \in {"load", "flow"}, one.login,
             one.at = "load" => KeyOnly(one.cred) /\ one.target \in Providers,
             one.at = "flow" => one.target \in {"anthropic", "none"},
             secrets' \in secrets..MaxSecrets, Fits(one.cred)', Becomes(p, one)
      PROVE  CredInv'
  <2>1. prog' \in [Programs -> Progs] /\ prog'[p] = one /\ \A q \in Programs \ {p} : prog'[q] = prog[q]
    BY <1>0, <1>c, BecomesIs
  <2>2. Planned(p)' /\ ~Holding(p)' /\ (Saving(p)' => prog'[p].cred.refresh = 0)
    BY <1>0, <1>c, <2>1 DEF Planned, Saving, Holding, KeyOnly
  <2>3. (\A v \in Providers : Fits(prog[p].base.creds[v])') /\ prog'[p].old <= secrets' /\ Fits(prog[p].cred)'
    <3>1. \A r \in handed' \ handed : r \in (secrets + 1)..secrets'
      BY <1>0
    <3>2. \A v \in Providers : /\ prog[p].base.creds[v].key <= secrets' /\ prog[p].base.creds[v].refresh <= secrets'
                               /\ prog[p].base.creds[v].refresh = 0 => prog[p].base.creds[v].key \notin handed'
      BY <1>c, <3>1, StillFits
    <3>3. 0 <= secrets'
      BY <1>0, <1>c
    <3> QED
      BY <1>c, <2>1, <3>2, <3>3 DEF Fits
  <2>4. OnlyWith(p)'
    BY <2>2 DEF OnlyWith
  <2>5. /\ overtaken' \in [Programs -> SUBSET Providers] /\ \A q \in Programs : overtaken'[q] = overtaken[q]
        /\ store' = store /\ UNCHANGED <<legacy, wasted, clashed, entered>> /\ prog[p].at # "write"
        /\ handed \subseteq handed' /\ handed' \ handed = {} /\ renewable \ renewable' = {}
    BY <1>0 DEF CredTypes
  <2>6. unexpired' \subseteq 1..secrets' /\ renewable' \subseteq 1..secrets'
    <3>1. 1..secrets \subseteq 1..secrets'
      BY <1>0, <1>c
    <3> QED
      BY <1>0, <3>1 DEF CredTypes
  <2>7. ASSUME NEW q \in Programs \ {p}, Saving(q), prog[q].cred.refresh # 0
        PROVE  /\ prog'[p].old # prog[q].cred.refresh
               /\ prog'[p].base.creds["anthropic"].refresh # prog[q].cred.refresh
               /\ Saving(p)' => prog'[p].cred.refresh # prog[q].cred.refresh
    BY <1>b, <1>c, <2>1, <2>2, <2>7
  <2>8. Saving(p)' => prog'[p].cred.refresh \in renewable' \cup {0}
    BY <2>2
  <2> QED
    BY <1>0, <1>c, <2>1, <2>2, <2>3, <2>4, <2>5, <2>6, <2>7, <2>8, GoesOnStep
<1>1. CASE /\ secrets < MaxSecrets /\ secrets' = secrets + 1
           /\ \E v \in Providers :
                Becomes(p, [prog[p] EXCEPT !.at = "load", !.login = TRUE, !.target = v,
                                           !.cred = [method |-> "api_key", key |-> secrets', refresh |-> 0]])
  <2>1. PICK cred : cred = [method |-> "api_key", key |-> secrets', refresh |-> 0]
    OBVIOUS
  <2>2. secrets' \in 0..MaxSecrets /\ secrets' # 0 /\ 0 \in 0..MaxSecrets
    BY <1>0, <1>1
  <2>3. cred \in GoodCreds /\ cred.key = secrets' /\ cred.refresh = 0 /\ cred.method = "api_key"
    BY <2>1, <2>2 DEF Creds, GoodCreds
  <2>4. PICK v \in Providers :
          Becomes(p, [prog[p] EXCEPT !.at = "load", !.login = TRUE, !.target = v,
                                     !.cred = [method |-> "api_key", key |-> secrets', refresh |-> 0]])
    BY <1>1
  <2>s. PICK f \in Progs : f = prog[p]
    BY <1>0
  <2>a. PICK at \in ProgSteps : at = "load"
    BY DEF ProgSteps
  <2>w. PICK w \in Providers \cup {"none"} : w = v
    OBVIOUS
  <2>t. PICK one : one = LoggingIn(f, at, w)
    OBVIOUS
  <2>5. one \in Progs /\ one.at = "load" /\ one.base = f.base /\ one.old = f.old /\ one.target = v /\ one.login
    <3>1. /\ one \in Progs /\ one.at = at /\ one.base = f.base /\ one.old = f.old /\ one.target = w /\ one.login
      BY <2>t, LoginIs
    <3> QED
      BY <2>a, <2>w, <3>1
  <2>u. PICK two : two = [one EXCEPT !.cred = cred]
    OBVIOUS
  <2>6. two \in Progs /\ two.at = "load" /\ two.base = f.base /\ two.old = f.old /\ two.target = v /\ two.login
        /\ two.cred = cred
    BY <2>3, <2>5, <2>u DEF Progs
  <2>7. Becomes(p, two)
    BY <2>1, <2>4, <2>a, <2>w, <2>s, <2>t, <2>u DEF LoggingIn
  <2>8. KeyOnly(two.cred)
    BY <2>2, <2>3, <2>6 DEF KeyOnly
  <2>9. Fits(two.cred)' /\ secrets' \in secrets..MaxSecrets
    <3>1. secrets + 1 \notin handed /\ 0 <= secrets' /\ secrets' <= secrets' /\ secrets' \in secrets..MaxSecrets
      BY <1>0, <1>1 DEF CredTypes
    <3>2. secrets' \notin handed'
      BY <1>0, <1>1, <3>1
    <3> QED
      BY <2>3, <2>6, <3>1, <3>2 DEF Fits
  <2>10. two.base = prog[p].base /\ two.old = 0 /\ two.at \in {"load", "flow"} /\ two.login /\ two.target \in Providers
    BY <1>0, <2>6, <2>s
  <2> QED
    BY <1>c, <2>6, <2>7, <2>8, <2>9, <2>10
<1>2. CASE /\ \E v \in {"anthropic", "none"} : Becomes(p, [prog[p] EXCEPT !.at = "flow", !.login = TRUE, !.target = v])
           /\ UNCHANGED secrets
  <2>1. PICK v \in {"anthropic", "none"} : Becomes(p, [prog[p] EXCEPT !.at = "flow", !.login = TRUE, !.target = v])
    BY <1>2
  <2>s. PICK f \in Progs : f = prog[p]
    BY <1>0
  <2>a. PICK at \in ProgSteps : at = "flow"
    BY DEF ProgSteps
  <2>w. PICK w \in Providers \cup {"none"} : w = v
    BY CredFields
  <2>t. PICK one : one = LoggingIn(f, at, w)
    OBVIOUS
  <2>2. one \in Progs /\ one.at = "flow" /\ one.base = f.base /\ one.old = f.old /\ one.target = v /\ one.login
        /\ one.cred = f.cred
    <3>1. /\ one \in Progs /\ one.at = at /\ one.base = f.base /\ one.old = f.old /\ one.target = w /\ one.login
          /\ one.cred = f.cred
      BY <2>t, LoginIs
    <3> QED
      BY <2>a, <2>w, <3>1
  <2>3. Becomes(p, one)
    BY <2>1, <2>a, <2>w, <2>s, <2>t DEF LoggingIn
  <2>4. Fits(one.cred)' /\ secrets' \in secrets..MaxSecrets
    BY <1>0, <1>2, <2>2, <2>s DEF Fits, CredInv, FitsInv
  <2>5. one.base = prog[p].base /\ one.old = 0 /\ one.at \in {"load", "flow"} /\ one.login
    BY <1>0, <2>2, <2>s
  <2> QED
    BY <1>c, <2>2, <2>3, <2>4, <2>5
<1> QED
  BY <1>1, <1>2 DEF BeginLogin

LEMMA LoadForChangeStep == ASSUME CredInv, NEW p \in Programs, LoadForChange(p) PROVE CredInv'
<1>0. /\ CredTypes /\ prog \in [Programs -> Progs] /\ prog[p] \in Progs /\ prog[p].at = "load" /\ store \in Stores
      /\ MaxSecrets \in Nat /\ secrets \in 0..MaxSecrets /\ Planned(p) /\ Saving(p) /\ OnlyWith(p)
      /\ UNCHANGED <<store, legacy, secrets, unexpired, renewable, handed, wasted, clashed, entered>>
  BY CredentialsAssumption DEF CredInv, CredTypes, LoadForChange, PlansInv, Saving, NewInv, secretVars
<1>s. PICK now : now = LoadCredentialStore
  OBVIOUS
<1>1. /\ now \in Stores /\ now.creds["openai"].method # "oauth"
      /\ now.creds["anthropic"].refresh \in {0, store.creds["anthropic"].refresh}
      /\ (Readable => now = store) /\ (~Readable => now = EmptyStore)
  BY <1>0, <1>s, CredFields DEF LoadCredentialStore, CredInv, PlansInv
<1>t. PICK one : one = [prog[p] EXCEPT !.at = "open"]
  OBVIOUS
<1>u. PICK what : what = [one EXCEPT !.base = now]
  OBVIOUS
<1>2. /\ one \in Progs /\ one.at = "open" /\ one.cred = prog[p].cred /\ one.old = prog[p].old
      /\ one.target = prog[p].target /\ one.login = prog[p].login
  BY <1>0, <1>t DEF Progs, ProgSteps
<1>3. /\ what \in Progs /\ what.at = "open" /\ what.base = now /\ what.cred = prog[p].cred /\ what.old = prog[p].old
      /\ what.target = prog[p].target /\ what.login = prog[p].login
  BY <1>1, <1>2, <1>u DEF Progs
<1>4. Becomes(p, what)
  BY <1>s, <1>t, <1>u DEF LoadForChange
<1>5. prog' \in [Programs -> Progs] /\ prog'[p] = what /\ \A q \in Programs \ {p} : prog'[q] = prog[q]
  BY <1>0, <1>3, <1>4, BecomesIs
<1>6. Planned(p)' /\ Saving(p)' /\ prog'[p].old = prog[p].old
  BY <1>0, <1>1, <1>3, <1>5 DEF Planned, Saving
<1>7. /\ overtaken' \in [Programs -> SUBSET Providers] /\ \A q \in Programs \ {p} : overtaken'[q] = overtaken[q]
      /\ overtaken'[p] = IF Readable THEN {} ELSE Providers
  BY <1>0 DEF CredTypes, LoadForChange
<1>8. (\A v \in Providers : Fits(prog[p].base.creds[v])') /\ Fits(prog[p].cred)' /\ prog'[p].old <= secrets'
  <2>1. \A v \in Providers : Fits(store.creds[v])
    BY DEF CredInv, FitsInv
  <2>2. 0 <= secrets /\ 0 \notin handed
    BY <1>0 DEF CredTypes
  <2>3. \A v \in Providers : Fits(prog[p].base.creds[v])'
    BY <1>0, <1>1, <1>3, <1>5, <2>1, <2>2, CredFields DEF Fits
  <2>4. Fits(prog[p].cred)' /\ prog'[p].old <= secrets'
    BY <1>0, <1>3, <1>5 DEF Fits, CredInv, FitsInv
  <2> QED
    BY <2>3, <2>4
<1>9. \A v \in Providers \ clashed : v \in overtaken'[p] \/ HasKey(prog[p].base.creds, v)'
  BY <1>0, <1>1, <1>3, <1>5, <1>7 DEF HasKey, CredInv, KeyInv
<1>10. ASSUME "anthropic" \notin clashed
       PROVE  "anthropic" \in overtaken'[p] \/ Alive(prog[p].base.creds["anthropic"].refresh)'
  <2>1. CASE ~Readable
    BY <1>7, <2>1, CredFields
  <2>2. CASE Readable
    <3>1. PICK r : r = store.creds["anthropic"].refresh
      OBVIOUS
    <3>2. Alive(r)
      BY <1>10, <2>2, <3>1 DEF CredInv, RenewInv
    <3>3. Alive(r)'
      BY <1>0, <1>5, <1>6, <3>2 DEF Alive, Saving
    <3> QED
      BY <1>1, <1>3, <1>5, <2>2, <3>1, <3>3 DEF Alive
  <2> QED
    BY <2>1, <2>2
<1>11. prog'[p].cred.refresh \in renewable' \cup {0}
  BY <1>0, <1>3, <1>5 DEF CredInv, RenewInv
<1>12. OnlyWith(p)'
  BY <1>0, <1>1, <1>3, <1>5, <1>6 DEF OnlyWith, Saving
<1>13. ASSUME NEW q \in Programs \ {p}, Saving(q), prog[q].cred.refresh # 0
       PROVE  /\ prog'[p].old # prog[q].cred.refresh
              /\ prog'[p].base.creds["anthropic"].refresh # prog[q].cred.refresh
              /\ prog'[p].cred.refresh # prog[q].cred.refresh
  BY <1>0, <1>1, <1>3, <1>5, <1>13 DEF CredInv, NewInv, OnlyWith
<1>14. /\ secrets' \in secrets..MaxSecrets /\ unexpired' \subseteq 1..secrets' /\ renewable' \subseteq 1..secrets'
       /\ handed \subseteq handed' /\ handed' \ handed = {} /\ renewable \ renewable' = {} /\ prog[p].at # "write"
  BY <1>0 DEF CredTypes
<1> QED
  BY <1>0, <1>5, <1>6, <1>7, <1>8, <1>9, <1>10, <1>11, <1>12, <1>13, <1>14, GoesOnStep

LEMMA OpenStoreStep == ASSUME CredInv, NEW p \in Programs, OpenStore(p) PROVE CredInv'
<1>0. /\ CredTypes /\ prog \in [Programs -> Progs] /\ prog[p] \in Progs /\ prog[p].at = "open"
      /\ MaxSecrets \in Nat /\ secrets \in 0..MaxSecrets /\ Planned(p) /\ Saving(p) /\ OnlyWith(p) /\ Holding(p)
      /\ store' = Truncated
      /\ UNCHANGED <<legacy, secrets, unexpired, renewable, handed, wasted, overtaken, clashed, entered>>
  BY CredentialsAssumption DEF CredInv, CredTypes, OpenStore, PlansInv, Saving, Holding, NewInv, secretVars
<1>t. PICK what : what = [prog[p] EXCEPT !.at = "write"]
  OBVIOUS
<1>1. /\ what \in Progs /\ what.at = "write" /\ what.base = prog[p].base /\ what.cred = prog[p].cred
      /\ what.old = prog[p].old /\ what.target = prog[p].target /\ what.login = prog[p].login
  BY <1>0, <1>t DEF Progs, ProgSteps
<1>2. prog' \in [Programs -> Progs] /\ prog'[p] = what /\ \A q \in Programs \ {p} : prog'[q] = prog[q]
  BY <1>0, <1>1, <1>t, BecomesIs DEF OpenStore
<1>3. Planned(p)' /\ Saving(p)' /\ prog'[p].old = prog[p].old
  BY <1>0, <1>1, <1>2 DEF Planned, Saving
<1>4. (\A v \in Providers : Fits(prog[p].base.creds[v])') /\ Fits(prog[p].cred)' /\ prog'[p].old <= secrets'
  BY <1>0, <1>1, <1>2 DEF Fits, CredInv, FitsInv
<1>5. \A v \in Providers \ clashed : v \in overtaken'[p] \/ HasKey(prog[p].base.creds, v)'
  BY <1>0, <1>1, <1>2 DEF HasKey, CredInv, KeyInv
<1>6. ASSUME "anthropic" \notin clashed
      PROVE  "anthropic" \in overtaken'[p] \/ Alive(prog[p].base.creds["anthropic"].refresh)'
  <2>1. PICK r : r = prog[p].base.creds["anthropic"].refresh
    OBVIOUS
  <2>2. "anthropic" \in overtaken[p] \/ Alive(r)
    BY <1>0, <1>6, <2>1 DEF CredInv, RenewInv
  <2>3. Alive(r) => Alive(r)'
    BY <1>0, <1>2, <1>3 DEF Alive, Saving
  <2> QED
    BY <1>0, <1>1, <1>2, <2>1, <2>2, <2>3 DEF Alive
<1>7. prog'[p].cred.refresh \in renewable' \cup {0}
  BY <1>0, <1>1, <1>2 DEF CredInv, RenewInv
<1>8. OnlyWith(p)'
  BY <1>0, <1>1, <1>2, <1>3, CredFields DEF OnlyWith, Saving
<1>9. ASSUME NEW q \in Programs \ {p}, Saving(q), prog[q].cred.refresh # 0
      PROVE  /\ prog'[p].old # prog[q].cred.refresh
             /\ prog'[p].base.creds["anthropic"].refresh # prog[q].cred.refresh
             /\ prog'[p].cred.refresh # prog[q].cred.refresh
  BY <1>0, <1>1, <1>2, <1>9 DEF CredInv, NewInv, OnlyWith
<1>10. /\ overtaken' \in [Programs -> SUBSET Providers] /\ \A q \in Programs : overtaken'[q] = overtaken[q]
       /\ secrets' \in secrets..MaxSecrets /\ unexpired' \subseteq 1..secrets' /\ renewable' \subseteq 1..secrets'
       /\ handed \subseteq handed' /\ handed' \ handed = {} /\ renewable \ renewable' = {} /\ prog[p].at # "write"
       /\ prog'[p].at = "write"
  BY <1>0, <1>1, <1>2 DEF CredTypes
<1> QED
  BY <1>0, <1>2, <1>3, <1>4, <1>5, <1>6, <1>7, <1>8, <1>9, <1>10, GoesOnStep

(* What is written is what was read, with the new entry in it. *)
LEMMA SaveStoreStep == ASSUME CredInv, NEW p \in Programs, SaveCredentialStore(p) PROVE CredInv'
<1>s. PICK v : v = prog[p].target
  OBVIOUS
<1>t. PICK c : c = prog[p].cred
  OBVIOUS
<1>u. PICK base : base = prog[p].base.creds
  OBVIOUS
<1>n. PICK new : new = [active |-> v, creds |-> [base EXCEPT ![v] = c]]
  OBVIOUS
<1>0. /\ CredTypes /\ prog \in [Programs -> Progs] /\ prog[p] \in Progs /\ prog[p].at = "write"
      /\ MaxSecrets \in Nat /\ secrets \in 0..MaxSecrets /\ Planned(p) /\ Saving(p) /\ Holding(p) /\ OnlyWith(p)
      /\ UNCHANGED <<legacy, secrets, unexpired, renewable, handed, wasted>>
      /\ store' \in {new, Garbled}
      /\ clashed' = IF store' = Garbled THEN Providers ELSE (clashed \cup overtaken[p]) \ {v}
      /\ overtaken' = [q \in Programs |-> IF prog[q].at \in {"open", "write"} /\ q # p THEN overtaken[q] \cup {v} ELSE {}]
      /\ entered' = [entered EXCEPT ![v] = IF c.method = "api_key" THEN c.key ELSE 0]
      /\ Adopt(p, v, c.key)
  BY <1>s, <1>t, <1>u, <1>n, CredentialsAssumption
     DEF CredInv, CredTypes, SaveCredentialStore, PlansInv, Saving, Holding, NewInv, secretVars
<1>1. /\ v \in Providers /\ c \in GoodCreds /\ base \in [Providers -> GoodCreds] /\ base["openai"].method # "oauth"
      /\ (KeyOnly(c) /\ prog[p].old = 0) \/ (c.method = "oauth" /\ v = "anthropic")
  BY <1>0, <1>s, <1>t, <1>u DEF Planned, Progs, Stores
<1>2. c.key \in 1..MaxSecrets /\ c.method \in {"api_key", "oauth"} /\ c.refresh \in 0..MaxSecrets
  BY <1>0, <1>1 DEF GoodCreds, Creds, KeyOnly
<1>3. /\ prog' \in [Programs -> Progs] /\ \A q \in Programs \ {p} : prog'[q] = prog[q]
      /\ prog'[p].at = "ready" /\ Blank(prog'[p])
  BY <1>0, <1>1, <1>2, AdoptIs
<1>4. /\ ~Saving(p)' /\ ~Holding(p)' /\ \A q \in Programs \ {p} : (Saving(q)' <=> Saving(q)) /\ (Holding(q)' <=> Holding(q))
      /\ prog'[p].cred = NoCred /\ prog'[p].base.creds = EmptyStore.creds /\ prog'[p].old = 0
  BY <1>3 DEF Saving, Holding, Blank
<1>5. /\ new \in Stores /\ new.active = v /\ new.creds[v] = c /\ \A w \in Providers \ {v} : new.creds[w] = base[w]
      /\ new # Garbled
  BY <1>1, <1>n, CredFields DEF Stores, Providers
<1>6. \A w \in Providers : store'.creds[w] \in {NoCred, c, base[w]} /\ (w # v => store'.creds[w] \in {NoCred, base[w]})
  BY <1>0, <1>5, CredFields
<1>7. \A w \in Providers : entered'[w] = IF w # v THEN entered[w] ELSE IF c.method = "api_key" THEN c.key ELSE 0
  BY <1>0 DEF CredTypes
<1>8. CredTypes'
  <2>1. store' \in Stores
    BY <1>0, <1>5, CredFields
  <2>2. clashed' \subseteq Providers /\ overtaken' \in [Programs -> SUBSET Providers]
    BY <1>0, <1>1 DEF CredTypes
  <2>3. entered' \in [Providers -> 0..MaxSecrets]
    <3>1. (IF c.method = "api_key" THEN c.key ELSE 0) \in 0..MaxSecrets
      BY <1>0, <1>2
    <3> QED
      BY <1>0, <3>1 DEF CredTypes
  <2> QED
    BY <1>0, <1>3, <2>1, <2>2, <2>3 DEF CredTypes
<1>9. FitsInv'
  <2>1. Fits(NoCred) /\ Fits(c) /\ \A w \in Providers : Fits(base[w])
    <3>1. 0 <= secrets /\ 0 \notin handed
      BY <1>0 DEF CredTypes
    <3> QED
      BY <1>t, <1>u, <3>1, CredFields DEF Fits, CredInv, FitsInv
  <2>2. ASSUME NEW w \in Providers PROVE Fits(store.creds[w])'
    <3>1. PICK d : d = store'.creds[w]
      OBVIOUS
    <3>2. d \in {NoCred, c, base[w]}
      BY <1>6, <3>1
    <3>3. Fits(d)
      BY <2>1, <3>2
    <3> QED
      BY <1>0, <3>1, <3>3 DEF Fits
  <2>3. \A q \in Programs \ {p} : /\ Fits(prog[q].cred)' /\ prog'[q].old <= secrets'
                                  /\ \A w \in Providers : Fits(prog[q].base.creds[w])'
    BY <1>0, <1>3 DEF Fits, CredInv, FitsInv
  <2>4. Fits(prog[p].cred)' /\ prog'[p].old <= secrets' /\ \A w \in Providers : Fits(prog[p].base.creds[w])'
    BY <1>0, <1>4, <2>1, CredFields DEF Fits
  <2> QED
    BY <2>2, <2>3, <2>4 DEF FitsInv
<1>10. PlansInv'
  <2>1. Planned(p)'
    BY <1>3, <1>4, CredFields DEF Planned
  <2>2. \A q \in Programs \ {p} : Planned(q)'
    BY <1>3 DEF CredInv, PlansInv, Planned, Saving
  <2>3. store'.creds["openai"].method # "oauth"
    BY <1>1, <1>6, CredFields DEF KeyOnly
  <2> QED
    BY <2>1, <2>2, <2>3 DEF PlansInv
<1>11. ASSUME store' = Garbled PROVE KeyInv' /\ RenewInv'
  <2>1. clashed' = Providers /\ ~Readable'
    BY <1>0, <1>11, CredFields DEF Readable
  <2>2. KeyInv'
    BY <1>11, <2>1, CredFields DEF KeyInv
  <2>3. RenewInv'
    <3>1. ASSUME NEW q \in Programs, Saving(q)' PROVE prog'[q].cred.refresh \in renewable' \cup {0}
      BY <1>0, <1>3, <1>4, <3>1 DEF CredInv, RenewInv
    <3> QED
      BY <2>1, <3>1, CredFields DEF RenewInv
  <2> QED
    BY <2>2, <2>3
<1>12. ASSUME store' = new PROVE KeyInv' /\ RenewInv'
  <2>1. clashed' = (clashed \cup overtaken[p]) \ {v} /\ Readable'
    BY <1>0, <1>1, <1>5, <1>12, CredFields DEF Readable, Providers
  <2>2. ASSUME NEW w \in Providers \ clashed' PROVE HasKey(store.creds, w)'
    <3>1. CASE w = v
      <4>1. c.method = "api_key" => c = [method |-> "api_key", key |-> c.key, refresh |-> 0]
        BY <1>1 DEF KeyOnly, GoodCreds, Creds
      <4> QED
        BY <1>5, <1>7, <1>12, <3>1, <4>1 DEF HasKey
    <3>2. CASE w # v
      <4>1. w \notin clashed /\ w \notin overtaken[p]
        BY <2>1, <2>2, <3>2
      <4>2. HasKey(base, w)
        BY <1>0, <1>u, <2>2, <4>1 DEF CredInv, KeyInv
      <4> QED
        BY <1>5, <1>7, <1>12, <2>2, <3>2, <4>2 DEF HasKey
    <3> QED
      BY <3>1, <3>2
  <2>3. ASSUME NEW q \in Programs, Holding(q)', NEW w \in Providers \ clashed'
        PROVE  w \in overtaken'[q] \/ HasKey(prog[q].base.creds, w)'
    <3>1. q # p /\ Holding(q) /\ prog'[q] = prog[q] /\ overtaken'[q] = overtaken[q] \cup {v}
      BY <1>0, <1>3, <1>4, <2>3 DEF Holding
    <3>2. w # v => w \notin clashed
      BY <2>1, <2>3
    <3>3. w # v => (w \in overtaken[q] \/ HasKey(prog[q].base.creds, w))
      BY <2>3, <3>1, <3>2 DEF CredInv, KeyInv
    <3> QED
      BY <1>7, <2>3, <3>1, <3>3 DEF HasKey
  <2>4. KeyInv'
    BY <2>1, <2>2, <2>3 DEF KeyInv, Readable
  <2>5. ASSUME NEW r, v # "anthropic", Alive(r) PROVE Alive(r)'
    BY <1>0, <1>1, <1>3, <1>4, <2>5 DEF Alive
  <2>6. ASSUME "anthropic" \notin clashed' PROVE Alive(store.creds["anthropic"].refresh)'
    <3>1. CASE v = "anthropic"
      <4>1. c.refresh \in renewable \cup {0}
        BY <1>0, <1>t DEF CredInv, RenewInv
      <4> QED
        BY <1>0, <1>5, <1>12, <3>1, <4>1 DEF Alive
    <3>2. CASE v # "anthropic"
      <4>1. PICK r : r = base["anthropic"].refresh
        OBVIOUS
      <4>2. "anthropic" \notin clashed /\ "anthropic" \notin overtaken[p]
        BY <2>1, <2>6, <3>2
      <4>3. Alive(r)
        BY <1>0, <1>u, <4>1, <4>2 DEF CredInv, RenewInv
      <4>4. Alive(r)'
        BY <2>5, <3>2, <4>3
      <4>5. store'.creds["anthropic"].refresh = r
        BY <1>5, <1>12, <3>2, <4>1, CredFields
      <4> QED
        BY <4>4, <4>5 DEF Alive
    <3> QED
      BY <3>1, <3>2
  <2>7. ASSUME NEW q \in Programs, Holding(q)', "anthropic" \notin clashed'
        PROVE  "anthropic" \in overtaken'[q] \/ Alive(prog[q].base.creds["anthropic"].refresh)'
    <3>1. q # p /\ Holding(q) /\ prog'[q] = prog[q] /\ overtaken'[q] = overtaken[q] \cup {v}
      BY <1>0, <1>3, <1>4, <2>7 DEF Holding
    <3>2. CASE v = "anthropic"
      BY <3>1, <3>2
    <3>3. CASE v # "anthropic"
      <4>1. PICK r : r = prog[q].base.creds["anthropic"].refresh
        OBVIOUS
      <4>2. "anthropic" \in overtaken[q] \/ Alive(r)
        BY <2>1, <2>7, <3>1, <3>3, <4>1 DEF CredInv, RenewInv
      <4>3. Alive(r) => Alive(r)'
        BY <2>5, <3>3
      <4> QED
        BY <3>1, <4>1, <4>2, <4>3 DEF Alive
    <3> QED
      BY <3>2, <3>3
  <2>8. RenewInv'
    <3>1. ASSUME NEW q \in Programs, Saving(q)' PROVE prog'[q].cred.refresh \in renewable' \cup {0}
      BY <1>0, <1>3, <1>4, <3>1 DEF CredInv, RenewInv
    <3> QED
      BY <2>6, <2>7, <3>1 DEF RenewInv
  <2> QED
    BY <2>4, <2>8
<1>13. NewInv'
  <2>1. ASSUME NEW q \in Programs \ {p}, Saving(q)', prog'[q].cred.refresh # 0 PROVE OnlyWith(q)'
    <3>1. Saving(q) /\ prog'[q] = prog[q] /\ OnlyWith(q)
      BY <1>3, <1>4, <2>1 DEF CredInv, NewInv
    <3>2. c.refresh # prog[q].cred.refresh /\ base["anthropic"].refresh # prog[q].cred.refresh
      BY <1>0, <1>t, <1>u, <2>1, <3>1 DEF OnlyWith
    <3>3. store'.creds["anthropic"].refresh # prog[q].cred.refresh
      BY <1>6, <2>1, <3>1, <3>2, CredFields
    <3>4. ASSUME NEW d \in Programs
          PROVE  prog'[d].old # prog[q].cred.refresh /\ prog'[d].base.creds["anthropic"].refresh # prog[q].cred.refresh
      BY <1>3, <1>4, <2>1, <3>1, CredFields DEF OnlyWith
    <3>5. ASSUME NEW d \in Programs \ {q}, Saving(d)' PROVE prog'[d].cred.refresh # prog[q].cred.refresh
      BY <1>3, <1>4, <2>1, <3>1, <3>5 DEF OnlyWith
    <3> QED
      BY <3>1, <3>3, <3>4, <3>5 DEF OnlyWith
  <2>2. \A q \in Programs \ {p} : OnlyWith(q)'
    BY <2>1 DEF OnlyWith
  <2>3. OnlyWith(p)'
    BY <1>4 DEF OnlyWith
  <2> QED
    BY <2>2, <2>3 DEF NewInv
<1> QED
  BY <1>0, <1>8, <1>9, <1>10, <1>11, <1>12, <1>13 DEF CredInv

(* A program that gives up what it was to write. *)
LEMMA UnsavedIs ==
  ASSUME CredInv, NEW p \in Programs, Saving(p) \/ prog[p].login, Unsaved(p)
  PROVE  /\ prog' \in [Programs -> Progs] /\ \A q \in Programs \ {p} : prog'[q] = prog[q]
         /\ prog'[p].at = "ready" /\ Blank(prog'[p]) /\ wasted \subseteq wasted' /\ prog[p].old \in wasted' \cup {0}
<1>0. /\ prog \in [Programs -> Progs] /\ prog[p] \in Progs /\ Planned(p) /\ prog[p].uses \in Sessions
      /\ wasted' = wasted \cup ({prog[p].old} \ {0}) /\ MaxSecrets \in Nat
  BY CredentialsAssumption DEF CredInv, CredTypes, PlansInv, Unsaved, Progs
<1>1. CASE Ready(p, prog[p].uses)
  BY <1>0, <1>1, ReadyIs
<1>2. CASE Saving(p) /\ Adopt(p, prog[p].target, prog[p].cred.key)
  <2>1. prog[p].target \in Providers /\ prog[p].cred \in GoodCreds /\ prog[p].cred.method # "none"
    BY <1>0, <1>2 DEF Planned, KeyOnly, Progs
  <2>2. prog[p].cred.key \in 1..MaxSecrets
    BY <1>0, <2>1 DEF GoodCreds, Creds
  <2> QED
    BY <1>0, <1>2, <2>1, <2>2, AdoptIs
<1> QED
  BY <1>1, <1>2 DEF Unsaved

LEMMA EndsIs ==
  ASSUME CredInv, NEW p \in Programs, Ends(p)
  PROVE  /\ prog' \in [Programs -> Progs] /\ \A q \in Programs \ {p} : prog'[q] = prog[q]
         /\ prog'[p].at = "off" /\ Blank(prog'[p]) /\ wasted \subseteq wasted' /\ prog[p].old \in wasted' \cup {0}
BY OffIs, BecomesIs DEF CredInv, CredTypes, Ends, Blank

LEMMA CredNextInv == ASSUME CredInv, CredentialsNext PROVE CredInv'
<1>0. /\ CredTypes /\ prog \in [Programs -> Progs] /\ legacy \in GoodCreds /\ NoCred \in GoodCreds
      /\ MaxSecrets \in Nat /\ secrets \in 0..MaxSecrets /\ unexpired \subseteq 1..secrets /\ secrets \in secrets..MaxSecrets
      /\ (store = Garbled => clashed = Providers)
  BY CredentialsAssumption, CredFields DEF CredInv, CredTypes, KeyInv
<1>1. ASSUME NEW p \in Programs, Launch(p) PROVE CredInv'
  <2>1. /\ UNCHANGED <<store, legacy, secrets, unexpired, renewable, handed, wasted, overtaken, clashed, entered>>
        /\ prog[p].at = "off" /\ Becomes(p, [Off EXCEPT !.at = "resolve"])
    BY <1>1 DEF Launch, secretVars
  <2>2. PICK what : what = [Off EXCEPT !.at = "resolve"]
    OBVIOUS
  <2>3. what \in Progs /\ Blank(what) /\ what.at = "resolve"
    BY <2>2, StartIs
  <2>4. prog' \in [Programs -> Progs] /\ prog'[p] = what /\ \A q \in Programs \ {p} : prog'[q] = prog[q]
    BY <1>0, <2>1, <2>2, <2>3, BecomesIs
  <2> QED
    BY <1>0, <2>1, <2>3, <2>4, LeaveStep DEF Saving
<1>2. ASSUME NEW p \in Programs, NEW v \in Providers, ResolveFromEnv(p, v) PROVE CredInv'
  <2>1. /\ UNCHANGED <<store, legacy, unexpired, renewable, handed, wasted, overtaken, clashed, entered>>
        /\ prog[p].at = "resolve" /\ secrets < MaxSecrets /\ secrets' = secrets + 1 /\ Adopt(p, v, secrets')
    BY <1>2 DEF ResolveFromEnv
  <2>2. secrets' \in 1..MaxSecrets /\ secrets' \in secrets..MaxSecrets /\ unexpired' \subseteq 1..secrets'
    BY <1>0, <2>1
  <2>3. /\ prog' \in [Programs -> Progs] /\ \A q \in Programs \ {p} : prog'[q] = prog[q]
        /\ prog'[p].at = "ready" /\ Blank(prog'[p])
    BY <1>0, <2>1, <2>2, AdoptIs
  <2> QED
    BY <1>0, <2>1, <2>2, <2>3, LeaveStep DEF Saving
<1>3. ASSUME NEW p \in Programs, RefreshToken(p) PROVE CredInv'
  <2>0. prog[p].at = "refresh" /\ UNCHANGED <<store, legacy, logins, overtaken, clashed, entered>>
    BY <1>3 DEF RefreshToken
  <2>1. ASSUME NEW r \in BOOLEAN, Answer(p, r) PROVE CredInv'
    BY <2>0, <2>1, AnswerStep
  <2>2. ASSUME Ready(p, NoSession), UNCHANGED <<secrets, unexpired, handed>>,
               \/ UNCHANGED <<renewable, wasted>>
               \/ renewable' = renewable \ {prog[p].old} /\ wasted' = wasted \cup {prog[p].old}
        PROVE  CredInv'
    <3>1. NoSession \in Sessions
      BY DEF Sessions
    <3>2. /\ prog' \in [Programs -> Progs] /\ \A q \in Programs \ {p} : prog'[q] = prog[q]
          /\ prog'[p].at = "ready" /\ Blank(prog'[p])
      BY <1>0, <2>2, <3>1, ReadyIs
    <3>3. /\ renewable' \subseteq renewable /\ wasted \subseteq wasted'
          /\ \A r \in renewable \ renewable' : r = prog[p].old /\ r \in wasted'
      BY <2>2
    <3> QED
      BY <1>0, <2>0, <2>2, <3>2, <3>3, LeaveStep DEF Saving
  <2> QED
    BY <1>3, <2>1, <2>2 DEF RefreshToken
<1>4. ASSUME NEW p \in Programs, FlowEnds(p) PROVE CredInv'
  <2>0. prog[p].at = "flow" /\ UNCHANGED <<store, legacy, logins, overtaken, clashed, entered>>
    BY <1>4 DEF FlowEnds
  <2>1. ASSUME NEW r \in BOOLEAN, Answer(p, r) PROVE CredInv'
    BY <2>0, <2>1, AnswerStep
  <2>2. ASSUME Ready(p, prog[p].uses), UNCHANGED secretVars PROVE CredInv'
    <3>1. prog[p].uses \in Sessions
      BY <1>0 DEF Progs
    <3>2. /\ prog' \in [Programs -> Progs] /\ \A q \in Programs \ {p} : prog'[q] = prog[q]
          /\ prog'[p].at = "ready" /\ Blank(prog'[p])
      BY <1>0, <2>2, <3>1, ReadyIs
    <3> QED
      BY <1>0, <2>0, <2>2, <3>2, LeaveStep DEF Saving, secretVars
  <2> QED
    BY <1>4, <2>1, <2>2 DEF FlowEnds
<1>5. ASSUME NEW p \in Programs, SaveTokens(p) PROVE CredInv'
  <2>1. /\ UNCHANGED <<store, secrets, unexpired, renewable, handed, wasted, overtaken, clashed, entered>>
        /\ prog[p].at = "save_legacy" /\ legacy' = prog[p].cred /\ Ready(p, prog[p].uses)
    BY <1>5 DEF SaveTokens, secretVars
  <2>2. prog[p].uses \in Sessions /\ legacy' \in GoodCreds
    BY <1>0, <2>1 DEF Progs
  <2>3. /\ prog' \in [Programs -> Progs] /\ \A q \in Programs \ {p} : prog'[q] = prog[q]
        /\ prog'[p].at = "ready" /\ Blank(prog'[p])
    BY <1>0, <2>1, <2>2, ReadyIs
  <2> QED
    BY <1>0, <2>1, <2>2, <2>3, LeaveStep DEF Saving
<1>6. ASSUME NEW p \in Programs, ReadFails(p) PROVE CredInv'
  <2>1. /\ UNCHANGED <<store, legacy, secrets, unexpired, renewable, handed, overtaken, clashed, entered>>
        /\ prog[p].at \in {"resolve", "load"} /\ (Ends(p) \/ (Unsaved(p) /\ Saving(p)))
    BY <1>6 DEF ReadFails, Saving
  <2>2. /\ prog' \in [Programs -> Progs] /\ \A q \in Programs \ {p} : prog'[q] = prog[q]
        /\ prog'[p].at \in {"off", "ready"} /\ Blank(prog'[p]) /\ wasted \subseteq wasted' /\ prog[p].old \in wasted' \cup {0}
    BY <2>1, UnsavedIs, EndsIs
  <2> QED
    BY <1>0, <2>1, <2>2, LeaveStep
<1>7. ASSUME NEW p \in Programs, SaveFails(p) PROVE CredInv'
  <2>1. /\ UNCHANGED <<secrets, unexpired, renewable, handed, overtaken, entered>> /\ (Unsaved(p) \/ Ends(p))
        /\ (Saving(p) \/ prog[p].login) /\ legacy' \in GoodCreds
        /\ clashed' \in {clashed, Providers} /\ (prog[p].at = "write" => clashed' = Providers)
        /\ store' \in {store, Garbled} /\ (store' = Garbled => clashed' = Providers)
    BY <1>0, <1>7 DEF SaveFails, Saving, CredInv, PlansInv, Planned
  <2>2. /\ prog' \in [Programs -> Progs] /\ \A q \in Programs \ {p} : prog'[q] = prog[q]
        /\ prog'[p].at \in {"off", "ready"} /\ Blank(prog'[p]) /\ wasted \subseteq wasted' /\ prog[p].old \in wasted' \cup {0}
    BY <2>1, UnsavedIs, EndsIs
  <2> QED
    BY <1>0, <2>1, <2>2, LeaveStep
<1>8. ASSUME NEW p \in Programs, Quit(p) PROVE CredInv'
  <2>1. /\ UNCHANGED <<store, legacy, secrets, unexpired, renewable, handed, overtaken, clashed, entered>>
        /\ prog[p].at # "write"
        /\ (~Saving(p) /\ Becomes(p, Off) /\ UNCHANGED wasted) \/ Ends(p)
    BY <1>8 DEF Quit, Saving
  <2>2. /\ prog' \in [Programs -> Progs] /\ \A q \in Programs \ {p} : prog'[q] = prog[q]
        /\ prog'[p].at = "off" /\ Blank(prog'[p])
    BY <1>0, <2>1, OffIs, BecomesIs, EndsIs DEF Blank
  <2>3. wasted \subseteq wasted' /\ (Saving(p) => prog[p].old \in wasted' \cup {0})
    BY <2>1, EndsIs
  <2> QED
    BY <1>0, <2>1, <2>2, <2>3, LeaveStep
<1>9. ASSUME UNCHANGED <<store, prog, secrets, renewable, handed, wasted, overtaken, clashed, entered>>,
             legacy' \in GoodCreds, unexpired' \subseteq unexpired
      PROVE  CredInv'
  <2>1. CredTypes' /\ FitsInv' /\ PlansInv'
    BY <1>0, <1>9 DEF CredInv, CredTypes, FitsInv, Fits, PlansInv, Planned, Saving
  <2>2. KeyInv' /\ NewInv'
    BY <1>9 DEF CredInv, KeyInv, HasKey, Readable, Holding, NewInv, OnlyWith, Saving
  <2>3. RenewInv'
    BY <1>9 DEF CredInv, RenewInv, Readable, Holding, Alive, Saving
  <2> QED
    BY <2>1, <2>2, <2>3 DEF CredInv
<1>10. ASSUME NEW p \in Programs, Logout(p) PROVE CredInv'
  BY <1>0, <1>9, <1>10 DEF Logout, secretVars
<1>11. ASSUME NEW k \in unexpired, TokenExpires(k) PROVE CredInv'
  BY <1>0, <1>9, <1>11 DEF TokenExpires
<1> QED
  BY <1>1, <1>2, <1>3, <1>4, <1>5, <1>6, <1>7, <1>8, <1>10, <1>11, ResolveStep, BeginLoginStep, LoadForChangeStep,
     OpenStoreStep, SaveStoreStep DEF CredentialsNext

LEMMA CredentialsKeep == CredInv => KeysSurvive /\ RenewalIsKept
<1> SUFFICES ASSUME CredInv PROVE KeysSurvive /\ RenewalIsKept
  OBVIOUS
<1>1. KeysSurvive
  BY DEF CredInv, KeyInv, KeysSurvive, HasKey, Readable
<1>2. ASSUME \A p \in Programs : prog[p].at \in {"off", "ready"}, "anthropic" \notin clashed, NEW cred,
             cred = store.creds["anthropic"]
      PROVE  IF cred.refresh = 0 THEN cred.key \notin handed ELSE cred.refresh \in renewable \cup wasted
  <2>1. Readable /\ \A p \in Programs : ~Saving(p)
    BY <1>2, CredFields DEF CredInv, KeyInv, Readable, Saving
  <2>2. PICK r : r = cred.refresh
    OBVIOUS
  <2>3. Alive(r)
    BY <1>2, <2>1, <2>2 DEF CredInv, RenewInv
  <2>4. Fits(cred)
    BY <1>2, CredFields DEF CredInv, FitsInv
  <2> QED
    BY <2>1, <2>2, <2>3, <2>4 DEF Alive, Fits
<1>3. RenewalIsKept
  BY <1>2 DEF RenewalIsKept
<1> QED
  BY <1>1, <1>3

-----------------------------------------------------------------------------
(* The installer of the marketplace. A directory that was staged holds what *)
(* the signature proves before it is swapped in; while a job is between its *)
(* two renames, or about to clear the copy it set aside, the copy is there  *)
(* and is its own; a job that met no other knows what it found; and what a *)
(* job has read of the list is what the list still says of every plugin not *)
(* tangled.                                                                 *)
JobSteps == {"idle", "get", "download", "verify", "extract", "set_aside", "swap", "clear", "remove", "read", "write"}
InstallSteps == {"get", "download", "verify", "extract", "set_aside", "swap", "clear"}
RowTypes == [PluginNames -> EntryVersions \cup {0}]
Jobs == [op : {"none", "install", "uninstall", "failed"}, name : PluginNames \cup {"none"}, at : JobSteps,
         entry : Entries \cup {NoJob.entry}, staged : Trees, before : Trees, existed : BOOLEAN, read : RowTypes]
InstallTypes ==
  /\ catalog \in [PluginNames -> Entries] /\ target \in [PluginNames -> Trees] /\ backup \in [PluginNames -> Trees]
  /\ rows \in RowTypes /\ job \in [Installers -> Jobs] /\ met \subseteq Installers
  /\ tangled \subseteq PluginNames /\ wanted \subseteq PluginNames

OwnJob(i) ==
  /\ job[i].at # "idle" => job[i].name \in PluginNames /\ job[i].op \in {"install", "uninstall"}
  /\ job[i].at \in InstallSteps => job[i].op = "install"
  /\ job[i].at = "remove" => job[i].op = "uninstall" /\ job[i].name \notin wanted
  /\ job[i].at \in {"verify", "extract", "set_aside", "swap"} => job[i].staged = Tree(job[i].entry)
  /\ job[i].at \in {"extract", "set_aside", "swap"} => job[i].staged.proven
  /\ job[i].at = "set_aside" => job[i].existed
OwnInv == \A i \in Installers : OwnJob(i)
HasAside(i, n) == job[i].name = n /\ (job[i].at = "clear" \/ (job[i].at = "swap" /\ job[i].existed))
AsideInv ==
  \A i \in Installers, n \in PluginNames : HasAside(i, n) =>
    /\ backup[n] # Nothing /\ \A j \in Installers \ {i} : ~HasAside(j, n)
    /\ job[i].at = "clear" /\ n \in wanted => target[n] # Nothing
Alone(i) ==
  /\ \A j \in Installers \ {i} : job[j].at = "idle"
  /\ job[i].at \in {"get", "download", "verify", "extract", "set_aside"} => target[job[i].name] = job[i].before
  /\ job[i].at = "swap" =>
       target[job[i].name] = Nothing /\ job[i].before = IF job[i].existed THEN backup[job[i].name] ELSE Nothing
  /\ job[i].at \in {"clear", "read", "write"} =>
       target[job[i].name].version = IF job[i].op = "uninstall" THEN 0 ELSE job[i].entry.version
AloneInv ==
  \A i \in Installers :
    /\ i \in met => job[i].at # "idle" /\ job[i].name \in tangled
    /\ i \notin met /\ job[i].at # "idle" => Alone(i)
ReadInv == \A i \in Installers, n \in PluginNames \ tangled : job[i].at = "write" => job[i].read[n] = rows[n]
Late(i, n) == job[i].name = n /\ job[i].at \in {"swap", "clear", "read", "write"}
ListInv ==
  \A n \in PluginNames \ tangled : rows[n] = target[n].version \/ \E i \in Installers : Late(i, n)
InstallInv ==
  InstallTypes /\ OwnInv /\ AsideInv /\ AloneInv /\ ReadInv /\ ListInv /\ OnlyProvenInstalled /\ OneCopyRemains

LEMMA InstallFields ==
  /\ Nothing \in Trees /\ Nothing.version = 0 /\ Nothing.proven = FALSE
  /\ NoJob \in Jobs /\ NoJob.at = "idle" /\ NoJob.op = "none" /\ Failed \in Jobs /\ Failed.at = "idle" /\ Failed.op = "failed"
  /\ \A entry \in Entries : Tree(entry) \in Trees
  /\ Tree(NoJob.entry) = Nothing
  /\ \A entry \in Entries \cup {NoJob.entry} :
       Tree(entry) \in Trees /\ Tree(entry).version = entry.version /\ Tree(entry).proven = entry.genuine
       /\ entry.version \in EntryVersions \cup {0}
  /\ \A tree1 \in Trees : tree1.version \in EntryVersions \cup {0}
<1>1. Nothing \in Trees /\ Nothing.version = 0 /\ Nothing.proven = FALSE
  BY DEF Nothing, Trees
<1>2. [n \in PluginNames |-> 0] \in RowTypes
  BY DEF RowTypes
<1>3. NoJob \in Jobs /\ NoJob.at = "idle" /\ NoJob.op = "none"
  <2>1. \A e : e = [version |-> 0, sig |-> "none", genuine |-> FALSE] =>
          [op |-> "none", name |-> "none", at |-> "idle", entry |-> e, staged |-> Nothing, before |-> Nothing,
           existed |-> FALSE, read |-> [n \in PluginNames |-> 0]].entry = e
    OBVIOUS
  <2> QED
    BY <1>1, <1>2 DEF NoJob, Jobs, JobSteps
<1>4. Failed \in Jobs /\ Failed.at = "idle" /\ Failed.op = "failed"
  BY <1>3 DEF Failed, Jobs
<1>5. NoJob.entry = [version |-> 0, sig |-> "none", genuine |-> FALSE]
  BY DEF NoJob
<1>6. Tree(NoJob.entry) = Nothing
  BY <1>5 DEF Tree, Nothing
<1>7. \A entry \in Entries : Tree(entry) \in Trees
  BY EntriesAssumption DEF Tree, Trees, EntryVersions
<1>8. \A entry \in Entries \cup {NoJob.entry} : entry.version \in EntryVersions \cup {0}
  BY <1>5 DEF EntryVersions
<1> QED
  BY <1>1, <1>3, <1>4, <1>6, <1>7, <1>8 DEF Tree, Trees, Nothing

(* Replacing the step of a job. *)
LEMMA SetStep ==
  ASSUME NEW f \in [Installers -> Jobs], NEW i \in Installers, NEW at \in JobSteps, NEW g, g = [f EXCEPT ![i].at = at]
  PROVE  /\ g \in [Installers -> Jobs] /\ g[i].at = at /\ g[i].op = f[i].op /\ g[i].name = f[i].name
         /\ g[i].entry = f[i].entry /\ g[i].staged = f[i].staged /\ g[i].before = f[i].before
         /\ g[i].existed = f[i].existed /\ g[i].read = f[i].read
         /\ \A j \in Installers \ {i} : g[j] = f[j]
BY DEF Jobs

LEMMA InstallInitInv == InstallerInit => InstallInv
<1> SUFFICES ASSUME InstallerInit PROVE InstallInv
  OBVIOUS
<1>1. job \in [Installers -> Jobs] /\ \A i \in Installers : job[i].at = "idle"
  BY InstallFields DEF InstallerInit
<1>2. \A n \in PluginNames : target[n] = Nothing /\ backup[n] = Nothing /\ rows[n] = 0
  BY DEF InstallerInit
<1>3. InstallTypes
  BY <1>1, InstallFields DEF InstallerInit, InstallTypes, RowTypes
<1>4. OwnInv /\ AsideInv /\ AloneInv /\ ReadInv
  BY <1>1 DEF InstallerInit, OwnInv, OwnJob, AsideInv, HasAside, AloneInv, ReadInv, InstallSteps
<1>5. ListInv /\ OnlyProvenInstalled /\ OneCopyRemains
  BY <1>2, InstallFields DEF InstallerInit, ListInv, OnlyProvenInstalled, OneCopyRemains
<1> QED
  BY <1>3, <1>4, <1>5 DEF InstallInv

(* A step in the middle of a job keeps alone who is alone, and what the    *)
(* others have read.                                                        *)
LEMMA StaysAlone ==
  ASSUME AloneInv, NEW i \in Installers, job[i].at # "idle", job'[i].at # "idle", job'[i].name = job[i].name,
         \A j \in Installers \ {i} : job'[j] = job[j], Alone(i) => Alone(i)', UNCHANGED <<met, tangled>>
  PROVE  AloneInv'
<1> SUFFICES ASSUME NEW j \in Installers
             PROVE  /\ j \in met => job'[j].at # "idle" /\ job'[j].name \in tangled
                    /\ j \notin met /\ job'[j].at # "idle" => Alone(j)'
  BY DEF AloneInv
<1>1. (job'[j].at # "idle" <=> job[j].at # "idle") /\ job'[j].name = job[j].name
  OBVIOUS
<1>2. j \in met => job[j].at # "idle" /\ job[j].name \in tangled
  BY DEF AloneInv
<1>3. ASSUME j \notin met, job[j].at # "idle" PROVE Alone(j)'
  <2>1. Alone(j)
    BY <1>3 DEF AloneInv
  <2>2. j = i
    BY <2>1 DEF Alone
  <2> QED
    BY <2>1, <2>2
<1> QED
  BY <1>1, <1>2, <1>3

LEMMA ReadsStay ==
  ASSUME ReadInv, NEW i \in Installers, \A j \in Installers \ {i} : job'[j] = job[j],
         job'[i].at = "write" => job'[i].read = rows, UNCHANGED <<rows, tangled>>
  PROVE  ReadInv'
BY DEF ReadInv

(* A step of a job that leaves the disk alone. *)
LEMMA MoveStep ==
  ASSUME InstallInv, NEW i \in Installers, job' \in [Installers -> Jobs], \A j \in Installers \ {i} : job'[j] = job[j],
         job[i].at \in {"get", "download", "verify", "extract", "read"}, job'[i].at # "clear",
         job'[i].at = "swap" => ~job'[i].existed, job[i].at = "read" => job'[i].at = "write",
         job'[i].name = job[i].name, OwnJob(i)', Alone(i) => Alone(i)',
         job'[i].at # "idle", job'[i].at = "write" => job'[i].read = rows, UNCHANGED <<catalog, target, backup, rows, met, tangled, wanted>>
  PROVE  InstallInv'
<1>0. InstallTypes /\ OwnInv /\ AsideInv /\ AloneInv /\ ReadInv /\ ListInv /\ OnlyProvenInstalled /\ OneCopyRemains
  BY DEF InstallInv
<1>1. InstallTypes'
  BY <1>0 DEF InstallTypes
<1>2. OwnInv'
  BY <1>0 DEF OwnInv, OwnJob
<1>3. \A j \in Installers, n \in PluginNames : HasAside(j, n)' <=> HasAside(j, n)
  BY DEF HasAside
<1>4. \A j \in Installers, n \in PluginNames : HasAside(j, n)' => j # i
  BY DEF HasAside
<1>5. AsideInv'
  BY <1>0, <1>3, <1>4 DEF AsideInv
<1>6. AloneInv' /\ ReadInv'
  BY <1>0, StaysAlone, ReadsStay
<1>7. ListInv'
  <2>1. \A j \in Installers, n \in PluginNames : Late(j, n) => Late(j, n)'
    BY DEF Late
  <2> QED
    BY <1>0, <2>1 DEF ListInv
<1>8. OnlyProvenInstalled' /\ OneCopyRemains'
  BY <1>0 DEF OnlyProvenInstalled, OneCopyRemains
<1> QED
  BY <1>1, <1>2, <1>5, <1>6, <1>7, <1>8 DEF InstallInv

(* A job that ends in the middle leaves its plugin tangled; when another is *)
(* at work, each has met the other.                                         *)
LEMMA AbandonStep ==
  ASSUME AloneInv, ReadInv, ListInv, NEW i \in Installers, job[i].at # "idle", job'[i].at = "idle",
         \A j \in Installers \ {i} : job'[j] = job[j], met' = met \ {i}, tangled' = tangled \cup {job[i].name},
         \A n \in PluginNames \ {job[i].name} : target'[n] = target[n], UNCHANGED rows
  PROVE  AloneInv' /\ ReadInv' /\ ListInv'
<1>1. AloneInv'
  <2>s. SUFFICES ASSUME NEW j \in Installers, job'[j].at # "idle" PROVE j \in met' /\ job'[j].name \in tangled'
    <3>1. \A j \in Installers \ {i} : j \in met => job[j].at # "idle"
      BY DEF AloneInv
    <3> QED
      BY <3>1 DEF AloneInv
  <2>1. j # i /\ job'[j] = job[j]
    BY <2>s
  <2>2. ~Alone(j)
    BY <2>1 DEF Alone
  <2>3. j \in met /\ job[j].name \in tangled
    BY <2>s, <2>1, <2>2 DEF AloneInv
  <2> QED
    BY <2>1, <2>3
<1>2. ReadInv'
  BY DEF ReadInv
<1>3. ListInv'
  <2>1. \A j \in Installers, n \in PluginNames \ tangled' : Late(j, n) => Late(j, n)'
    BY DEF Late
  <2> QED
    BY <2>1 DEF ListInv
<1> QED
  BY <1>1, <1>2, <1>3

LEMMA EndStep ==
  ASSUME InstallInv, NEW i \in Installers, job[i].at # "idle", Abandon(i, NoJob) \/ Abandon(i, Failed), UNCHANGED <<target, backup>>
  PROVE  InstallInv'
<1>0. InstallTypes /\ OwnInv /\ AsideInv /\ AloneInv /\ ReadInv /\ ListInv /\ OnlyProvenInstalled /\ OneCopyRemains
  BY DEF InstallInv
<1>1. /\ job' \in [Installers -> Jobs] /\ job'[i].at = "idle" /\ \A j \in Installers \ {i} : job'[j] = job[j]
      /\ met' = met \ {i} /\ tangled' = tangled \cup {job[i].name} /\ UNCHANGED <<catalog, rows, wanted>>
  BY <1>0, InstallFields DEF InstallTypes, Abandon
<1>2. InstallTypes'
  <2>1. job[i].name \in PluginNames
    BY <1>0 DEF OwnInv, OwnJob
  <2> QED
    BY <1>0, <1>1, <2>1 DEF InstallTypes
<1>3. OwnInv'
  BY <1>0, <1>1 DEF OwnInv, OwnJob, InstallSteps
<1>4. AsideInv'
  BY <1>0, <1>1 DEF AsideInv, HasAside
<1>5. AloneInv' /\ ReadInv' /\ ListInv'
  BY <1>0, <1>1, AbandonStep
<1>6. OnlyProvenInstalled' /\ OneCopyRemains'
  BY <1>0, <1>1 DEF OnlyProvenInstalled, OneCopyRemains
<1> QED
  BY <1>2, <1>3, <1>4, <1>5, <1>6 DEF InstallInv

LEMMA BeginStep ==
  ASSUME InstallInv, NEW i \in Installers, NEW op1 \in {"install", "uninstall"}, NEW n \in PluginNames, BeginJob(i, op1, n)
  PROVE  InstallInv'
<1> DEFINE new == [NoJob EXCEPT !.op = op1, !.name = n, !.before = target[n],
                                !.at = IF op1 = "install" THEN "get" ELSE "remove"]
           others == {j \in Installers \ {i} : job[j].at # "idle"}
<1>0. InstallTypes /\ OwnInv /\ AsideInv /\ AloneInv /\ ReadInv /\ ListInv /\ OnlyProvenInstalled /\ OneCopyRemains
  BY DEF InstallInv
<1>1. /\ job[i].at = "idle" /\ job' = [job EXCEPT ![i] = new]
      /\ IF others = {} THEN UNCHANGED <<met, tangled>>
         ELSE met' = met \cup others \cup {i} /\ tangled' = tangled \cup {n} \cup {job[j].name : j \in others}
      /\ wanted' = IF op1 = "uninstall" THEN wanted \ {n} ELSE wanted
      /\ UNCHANGED <<catalog, target, backup, rows>>
  BY DEF BeginJob
<1>2. /\ new \in Jobs /\ new.op = op1 /\ new.name = n /\ new.before = target[n]
      /\ new.at = IF op1 = "install" THEN "get" ELSE "remove"
  <2>1. target[n] \in Trees
    BY <1>0 DEF InstallTypes
  <2> QED
    BY <2>1, InstallFields DEF Jobs, JobSteps
<1> HIDE DEF new
<1>3. job' \in [Installers -> Jobs] /\ job'[i] = new /\ \A j \in Installers \ {i} : job'[j] = job[j]
  BY <1>0, <1>1, <1>2 DEF InstallTypes
<1>s. /\ met \subseteq met' /\ met' \subseteq met \cup Installers /\ tangled \subseteq tangled'
      /\ \A j \in others : j \in met' /\ i \in met' /\ n \in tangled' /\ job[j].name \in tangled'
  BY <1>1
<1>4. InstallTypes'
  <2>1. \A j \in others : job[j].name \in PluginNames
    BY <1>0 DEF OwnInv, OwnJob
  <2>2. tangled' \subseteq PluginNames /\ met' \subseteq Installers
    BY <1>0, <1>1, <2>1 DEF InstallTypes
  <2> QED
    BY <1>0, <1>1, <1>3, <2>2 DEF InstallTypes
<1>5. OwnInv'
  <2>1. OwnJob(i)'
    BY <1>1, <1>2, <1>3 DEF OwnJob, InstallSteps
  <2>2. \A j \in Installers \ {i} : OwnJob(j)'
    BY <1>0, <1>1, <1>3 DEF OwnInv, OwnJob
  <2> QED
    BY <2>1, <2>2 DEF OwnInv
<1>6. \A j \in Installers, m \in PluginNames : HasAside(j, m)' <=> HasAside(j, m) /\ j # i
  BY <1>1, <1>2, <1>3 DEF HasAside
<1>7. AsideInv'
  BY <1>0, <1>1, <1>3, <1>6 DEF AsideInv
<1>8. AloneInv'
  <2> SUFFICES ASSUME NEW j \in Installers
               PROVE  /\ j \in met' => job'[j].at # "idle" /\ job'[j].name \in tangled'
                      /\ j \notin met' /\ job'[j].at # "idle" => Alone(j)'
    BY DEF AloneInv
  <2>0. job'[i].at # "idle" /\ (j \in met => j \in others)
    BY <1>0, <1>1, <1>2, <1>3 DEF AloneInv
  <2>1. CASE others # {}
    <3>1. j \in others \/ j = i \/ (job'[j].at = "idle" /\ j \notin met')
      BY <1>1, <1>3, <2>0, <2>1
    <3> QED
      BY <1>1, <1>2, <1>3, <1>s, <2>0, <2>1, <3>1
  <2>2. CASE others = {}
    <3>1. \A k \in Installers \ {i} : job[k].at = "idle" /\ job'[k].at = "idle"
      BY <1>3, <2>2
    <3>2. Alone(i)'
      BY <1>1, <1>2, <1>3, <3>1 DEF Alone
    <3>3. j \notin met'
      BY <1>1, <2>0, <2>2
    <3> QED
      BY <3>1, <3>2, <3>3
  <2> QED
    BY <2>1, <2>2
<1>9. ReadInv'
  BY <1>0, <1>1, <1>2, <1>3, <1>s DEF ReadInv
<1>10. ListInv'
  <2>1. \A j \in Installers, m \in PluginNames : Late(j, m) => Late(j, m)'
    BY <1>1, <1>3 DEF Late
  <2> QED
    BY <1>0, <1>1, <1>s, <2>1 DEF ListInv
<1> QED
  BY <1>0, <1>1, <1>4, <1>5, <1>7, <1>8, <1>9, <1>10 DEF InstallInv, OnlyProvenInstalled, OneCopyRemains

LEMMA SetAsideStep == ASSUME InstallInv, NEW i \in Installers, SetAside(i) PROVE InstallInv'
<1> DEFINE n == job[i].name
<1>0. InstallTypes /\ OwnInv /\ AsideInv /\ AloneInv /\ ReadInv /\ ListInv /\ OnlyProvenInstalled /\ OneCopyRemains
  BY DEF InstallInv
<1>1. /\ job[i].at = "set_aside" /\ target[n] # Nothing /\ backup[n] = Nothing
      /\ backup' = [backup EXCEPT ![n] = target[n]] /\ target' = [target EXCEPT ![n] = Nothing]
      /\ job' = [job EXCEPT ![i].at = "swap"]
      /\ UNCHANGED <<catalog, rows, installOps, met, tangled, wanted>>
  BY DEF SetAside, Step
<1>2. n \in PluginNames /\ job[i].existed /\ job[i].op = "install" /\ OwnJob(i)
  BY <1>0, <1>1 DEF OwnInv, OwnJob, InstallSteps
<1>3. /\ job' \in [Installers -> Jobs] /\ job'[i].at = "swap" /\ job'[i].op = job[i].op /\ job'[i].name = n
      /\ job'[i].entry = job[i].entry /\ job'[i].staged = job[i].staged /\ job'[i].before = job[i].before
      /\ job'[i].existed = job[i].existed /\ \A j \in Installers \ {i} : job'[j] = job[j]
  <2>1. job \in [Installers -> Jobs] /\ "swap" \in JobSteps
    BY <1>0 DEF InstallTypes, JobSteps
  <2>2. job' = [job EXCEPT ![i].at = "swap"]
    BY <1>1
  <2>3. /\ job' \in [Installers -> Jobs] /\ job'[i].at = "swap" /\ job'[i].op = job[i].op
        /\ job'[i].name = job[i].name /\ job'[i].entry = job[i].entry /\ job'[i].staged = job[i].staged
        /\ job'[i].before = job[i].before /\ job'[i].existed = job[i].existed
        /\ \A j \in Installers \ {i} : job'[j] = job[j]
    BY <2>1, <2>2, SetStep
  <2> QED
    BY <2>3
<1>4. /\ target' \in [PluginNames -> Trees] /\ target'[n] = Nothing /\ \A m \in PluginNames \ {n} : target'[m] = target[m]
      /\ backup' \in [PluginNames -> Trees] /\ backup'[n] = target[n] /\ \A m \in PluginNames \ {n} : backup'[m] = backup[m]
  BY <1>0, <1>1, <1>2, InstallFields DEF InstallTypes
<1> HIDE DEF n
<1>5. InstallTypes'
  BY <1>0, <1>1, <1>3, <1>4 DEF InstallTypes
<1>6. OwnInv'
  <2>1. OwnJob(i)'
    BY <1>2, <1>1, <1>3 DEF OwnJob, InstallSteps, n
  <2>2. \A j \in Installers \ {i} : OwnJob(j)'
    BY <1>0, <1>1, <1>3 DEF OwnInv, OwnJob
  <2> QED
    BY <2>1, <2>2 DEF OwnInv
<1>7. \A j \in Installers \ {i} : ~HasAside(j, n)
  BY <1>0, <1>1, <1>2 DEF AsideInv
<1>8. \A m \in PluginNames : HasAside(i, m)' => m = n
  BY <1>3 DEF HasAside
<1>9. \A j \in Installers \ {i}, m \in PluginNames : HasAside(j, m)' <=> HasAside(j, m)
  BY <1>3 DEF HasAside
<1>10. AsideInv'
  <2>1. ASSUME NEW j \in Installers, NEW m \in PluginNames, HasAside(j, m)'
        PROVE  /\ backup'[m] # Nothing /\ \A k \in Installers \ {j} : ~HasAside(k, m)'
               /\ job'[j].at = "clear" /\ m \in wanted' => target'[m] # Nothing
    <3>1. CASE j = i
      BY <1>1, <1>3, <1>4, <1>7, <1>8, <1>9, <2>1, <3>1
    <3>2. CASE j # i
      <4>1. HasAside(j, m) /\ m # n
        BY <1>7, <1>9, <2>1, <3>2
      <4> QED
        BY <1>0, <1>1, <1>3, <1>4, <1>8, <1>9, <3>2, <4>1 DEF AsideInv
    <3> QED
      BY <3>1, <3>2
  <2> QED
    BY <2>1 DEF AsideInv
<1>11. AloneInv' /\ ReadInv'
  <2>1. Alone(i) => Alone(i)'
    BY <1>1, <1>2, <1>3, <1>4 DEF Alone, n
  <2> QED
    BY <1>0, <1>1, <1>3, <2>1, StaysAlone, ReadsStay
<1>12. ListInv'
  <2>1. (\A m \in PluginNames : m = n => Late(i, m)') /\ \A j \in Installers \ {i}, m \in PluginNames : Late(j, m) => Late(j, m)'
    BY <1>3 DEF Late
  <2>2. \A m \in PluginNames : Late(i, m) => m = n
    BY DEF Late, n
  <2> QED
    BY <1>0, <1>1, <1>4, <2>1, <2>2 DEF ListInv
<1>13. OnlyProvenInstalled' /\ OneCopyRemains'
  BY <1>0, <1>1, <1>2, <1>4 DEF OnlyProvenInstalled, OneCopyRemains
<1> QED
  BY <1>5, <1>6, <1>10, <1>11, <1>12, <1>13 DEF InstallInv

LEMMA SwapInStep == ASSUME InstallInv, NEW i \in Installers, SwapIn(i) PROVE InstallInv'
<1> DEFINE n == job[i].name
           next == IF job[i].existed THEN "clear" ELSE "read"
<1>0. InstallTypes /\ OwnInv /\ AsideInv /\ AloneInv /\ ReadInv /\ ListInv /\ OnlyProvenInstalled /\ OneCopyRemains
  BY DEF InstallInv
<1>1. /\ job[i].at = "swap" /\ target[n] = Nothing /\ target' = [target EXCEPT ![n] = job[i].staged]
      /\ wanted' = IF \E j \in Installers : job[j].name = n /\ job[j].at = "remove" THEN wanted ELSE wanted \cup {n}
      /\ job' = [job EXCEPT ![i].at = next]
      /\ UNCHANGED <<catalog, backup, rows, installOps, met, tangled>>
  BY DEF SwapIn, Step
<1>2. n \in PluginNames /\ job[i].op = "install" /\ job[i].staged = Tree(job[i].entry) /\ job[i].staged.proven
      /\ job[i].entry \in Entries \cup {NoJob.entry} /\ job[i].staged \in Trees
  BY <1>0, <1>1 DEF OwnInv, OwnJob, InstallSteps, InstallTypes, Jobs
<1>3. job[i].staged # Nothing /\ job[i].staged.version = job[i].entry.version
  BY <1>2, InstallFields
<1>4. /\ target' \in [PluginNames -> Trees] /\ target'[n] = job[i].staged /\ \A m \in PluginNames \ {n} : target'[m] = target[m]
  BY <1>0, <1>1, <1>2 DEF InstallTypes
<1>5. next \in JobSteps /\ next \in {"clear", "read"} /\ (next = "clear" <=> job[i].existed)
  BY <1>0 DEF JobSteps
<1> HIDE DEF next
<1>6. /\ job' \in [Installers -> Jobs] /\ job'[i].at = next /\ job'[i].op = job[i].op /\ job'[i].name = n
      /\ job'[i].entry = job[i].entry /\ \A j \in Installers \ {i} : job'[j] = job[j]
  BY <1>0, <1>1, <1>5, SetStep DEF InstallTypes
<1> HIDE DEF n
<1>7. wanted \subseteq wanted' /\ wanted' \subseteq wanted \cup {n}
      /\ (n \in wanted \/ \A j \in Installers : job[j].at = "remove" => job[j].name \notin wanted')
  BY <1>0, <1>1 DEF OwnInv, OwnJob
<1>8. InstallTypes'
  BY <1>0, <1>1, <1>2, <1>4, <1>6, <1>7 DEF InstallTypes
<1>9. OwnInv'
  <2>1. OwnJob(i)'
    BY <1>2, <1>5, <1>6 DEF OwnJob, InstallSteps
  <2>2. ASSUME NEW j \in Installers \ {i} PROVE OwnJob(j)'
    <3>1. job[j].at = "remove" => job[j].name \notin wanted'
      BY <1>0, <1>1, <1>7 DEF OwnInv, OwnJob
    <3> QED
      BY <1>0, <1>6, <3>1 DEF OwnInv, OwnJob
  <2> QED
    BY <2>1, <2>2 DEF OwnInv
<1>10. \A j \in Installers, m \in PluginNames : HasAside(j, m)' <=> HasAside(j, m)
  BY <1>1, <1>5, <1>6 DEF HasAside, n
<1>11. \A m \in PluginNames : target'[m] = Nothing => target[m] = Nothing /\ m # n
  BY <1>3, <1>4
<1>12. AsideInv'
  BY <1>0, <1>1, <1>6, <1>7, <1>10, <1>11 DEF AsideInv, HasAside
<1>13. AloneInv' /\ ReadInv'
  <2>1. Alone(i) => Alone(i)'
    BY <1>2, <1>3, <1>4, <1>5, <1>6 DEF Alone
  <2>2. job'[i].at \notin {"idle", "write"} /\ job'[i].name = job[i].name /\ job[i].at # "idle"
    BY <1>1, <1>5, <1>6 DEF n
  <2> QED
    BY <1>0, <1>1, <1>6, <2>1, <2>2, StaysAlone, ReadsStay
<1>14. ListInv'
  <2>1. (\A m \in PluginNames : m = n => Late(i, m)') /\ \A j \in Installers \ {i}, m \in PluginNames : Late(j, m) => Late(j, m)'
    BY <1>5, <1>6 DEF Late
  <2>2. \A m \in PluginNames : Late(i, m) => m = n
    BY DEF Late, n
  <2> QED
    BY <1>0, <1>1, <1>4, <2>1, <2>2 DEF ListInv
<1>15. OnlyProvenInstalled' /\ OneCopyRemains'
  BY <1>0, <1>1, <1>2, <1>4, <1>7, <1>11 DEF OnlyProvenInstalled, OneCopyRemains
<1> QED
  BY <1>8, <1>9, <1>12, <1>13, <1>14, <1>15 DEF InstallInv

LEMMA SwapFailsStep == ASSUME InstallInv, NEW i \in Installers, SwapFails(i) PROVE InstallInv'
<1> DEFINE n == job[i].name
<1>0. InstallTypes /\ OwnInv /\ AsideInv /\ AloneInv /\ ReadInv /\ ListInv /\ OnlyProvenInstalled /\ OneCopyRemains
  BY DEF InstallInv
<1>1. job[i].at = "swap" /\ Abandon(i, Failed)
  BY DEF SwapFails
<1>2. CASE UNCHANGED <<target, backup>>
  BY <1>1, <1>2, EndStep
<1>3. CASE /\ job[i].existed /\ target[n] = Nothing /\ backup[n] # Nothing
           /\ target' = [target EXCEPT ![n] = backup[n]] /\ backup' = [backup EXCEPT ![n] = Nothing]
  <2>0. n \in PluginNames
    BY <1>0, <1>1 DEF OwnInv, OwnJob
  <2>1. /\ target' \in [PluginNames -> Trees] /\ target'[n] = backup[n] /\ \A m \in PluginNames \ {n} : target'[m] = target[m]
        /\ backup' \in [PluginNames -> Trees] /\ backup'[n] = Nothing /\ \A m \in PluginNames \ {n} : backup'[m] = backup[m]
    BY <1>0, <1>3, <2>0, InstallFields DEF InstallTypes
  <2>2. HasAside(i, n) /\ backup[n] # Nothing
    BY <1>1, <1>3 DEF HasAside
  <2>3. \A j \in Installers \ {i} : ~HasAside(j, n)
    BY <1>0, <2>0, <2>2 DEF AsideInv
  <2>4. /\ job' \in [Installers -> Jobs] /\ job'[i].at = "idle" /\ \A j \in Installers \ {i} : job'[j] = job[j]
        /\ met' = met \ {i} /\ tangled' = tangled \cup {n} /\ UNCHANGED <<catalog, rows, wanted>>
    BY <1>0, <1>1, InstallFields DEF InstallTypes, Abandon
  <2>5. InstallTypes'
    BY <1>0, <2>0, <2>1, <2>4 DEF InstallTypes
  <2>6. OwnInv'
    BY <1>0, <2>4 DEF OwnInv, OwnJob, InstallSteps
  <2>9. AloneInv' /\ ReadInv' /\ ListInv'
    BY <1>0, <1>1, <2>1, <2>4, AbandonStep
  <2> HIDE DEF n
  <2>7. \A j \in Installers, m \in PluginNames : HasAside(j, m)' => j # i /\ HasAside(j, m) /\ m # n
    BY <2>3, <2>4 DEF HasAside
  <2>8. AsideInv'
    BY <1>0, <2>1, <2>4, <2>7 DEF AsideInv
  <2>10. OnlyProvenInstalled' /\ OneCopyRemains'
    <3>1. wanted \subseteq PluginNames /\ wanted' = wanted
      BY <1>0, <2>4 DEF InstallTypes
    <3>2. \A m \in wanted : target'[m] # Nothing \/ backup'[m] # Nothing
      BY <1>0, <2>1, <2>2, <3>1 DEF OneCopyRemains
    <3>3. \A m \in PluginNames : \A copy \in {target'[m], backup'[m]} : copy \in {target[m], backup[m], Nothing}
      BY <2>1
    <3> QED
      BY <1>0, <3>1, <3>2, <3>3 DEF OnlyProvenInstalled, OneCopyRemains
  <2> QED
    BY <2>5, <2>6, <2>8, <2>9, <2>10 DEF InstallInv
<1> QED
  BY <1>2, <1>3 DEF SwapFails

LEMMA ClearStep == ASSUME InstallInv, NEW i \in Installers, ClearBackup(i) PROVE InstallInv'
<1> DEFINE n == job[i].name
<1>0. InstallTypes /\ OwnInv /\ AsideInv /\ AloneInv /\ ReadInv /\ ListInv /\ OnlyProvenInstalled /\ OneCopyRemains
  BY DEF InstallInv
<1>1. /\ job[i].at = "clear" /\ backup' = [backup EXCEPT ![n] = Nothing] /\ job' = [job EXCEPT ![i].at = "read"]
      /\ UNCHANGED <<catalog, target, rows, installOps, met, tangled, wanted>>
  BY DEF ClearBackup, Step
<1>2. n \in PluginNames /\ job[i].op = "install"
  BY <1>0, <1>1 DEF OwnInv, OwnJob, InstallSteps
<1>3. /\ job' \in [Installers -> Jobs] /\ job'[i].at = "read" /\ job'[i].op = job[i].op /\ job'[i].name = n
      /\ job'[i].entry = job[i].entry /\ \A j \in Installers \ {i} : job'[j] = job[j]
  <2>1. job' = [job EXCEPT ![i].at = "read"] /\ job \in [Installers -> Jobs] /\ "read" \in JobSteps
    BY <1>0, <1>1 DEF InstallTypes, JobSteps
  <2> QED
    BY <2>1, SetStep
<1>4. backup' \in [PluginNames -> Trees] /\ backup'[n] = Nothing /\ \A m \in PluginNames \ {n} : backup'[m] = backup[m]
  BY <1>0, <1>1, <1>2, InstallFields DEF InstallTypes
<1>5. HasAside(i, n)
  BY <1>1 DEF HasAside
<1>6. (\A j \in Installers \ {i} : ~HasAside(j, n)) /\ (n \in wanted => target[n] # Nothing)
  BY <1>0, <1>1, <1>2, <1>5 DEF AsideInv
<1> HIDE DEF n
<1>7. InstallTypes'
  BY <1>0, <1>1, <1>3, <1>4 DEF InstallTypes
<1>8. OwnInv'
  <2>1. OwnJob(i)'
    BY <1>2, <1>3 DEF OwnJob, InstallSteps
  <2>2. \A j \in Installers \ {i} : OwnJob(j)'
    BY <1>0, <1>1, <1>3 DEF OwnInv, OwnJob
  <2> QED
    BY <2>1, <2>2 DEF OwnInv
<1>9. \A j \in Installers, m \in PluginNames : HasAside(j, m)' => j # i /\ HasAside(j, m) /\ m # n
  BY <1>3, <1>6 DEF HasAside
<1>10. AsideInv'
  BY <1>0, <1>1, <1>3, <1>4, <1>9 DEF AsideInv
<1>11. AloneInv' /\ ReadInv'
  <2>1. Alone(i) => Alone(i)'
    BY <1>1, <1>3 DEF Alone, n
  <2> QED
    BY <1>0, <1>1, <1>3, <2>1, StaysAlone, ReadsStay
<1>12. ListInv'
  <2>1. \A j \in Installers, m \in PluginNames : Late(j, m) => Late(j, m)'
    BY <1>3 DEF Late, n
  <2> QED
    BY <1>0, <1>1, <2>1 DEF ListInv
<1>13. OnlyProvenInstalled' /\ OneCopyRemains'
  BY <1>0, <1>1, <1>4, <1>6 DEF OnlyProvenInstalled, OneCopyRemains
<1> QED
  BY <1>7, <1>8, <1>10, <1>11, <1>12, <1>13 DEF InstallInv

LEMMA RemoveStep == ASSUME InstallInv, NEW i \in Installers, RemoveTarget(i) PROVE InstallInv'
<1> DEFINE n == job[i].name
<1>0. InstallTypes /\ OwnInv /\ AsideInv /\ AloneInv /\ ReadInv /\ ListInv /\ OnlyProvenInstalled /\ OneCopyRemains
  BY DEF InstallInv
<1>1. /\ job[i].at = "remove" /\ target' = [target EXCEPT ![n] = Nothing] /\ job' = [job EXCEPT ![i].at = "read"]
      /\ UNCHANGED <<catalog, backup, rows, installOps, met, tangled, wanted>>
  BY DEF RemoveTarget, Step
<1>2. n \in PluginNames /\ job[i].op = "uninstall" /\ n \notin wanted
  BY <1>0, <1>1 DEF OwnInv, OwnJob
<1>3. /\ job' \in [Installers -> Jobs] /\ job'[i].at = "read" /\ job'[i].op = job[i].op /\ job'[i].name = n
      /\ job'[i].entry = job[i].entry /\ \A j \in Installers \ {i} : job'[j] = job[j]
  BY <1>0, <1>1, SetStep DEF InstallTypes, JobSteps
<1>4. target' \in [PluginNames -> Trees] /\ target'[n] = Nothing /\ \A m \in PluginNames \ {n} : target'[m] = target[m]
  BY <1>0, <1>1, <1>2, InstallFields DEF InstallTypes
<1> HIDE DEF n
<1>7. InstallTypes'
  BY <1>0, <1>1, <1>3, <1>4 DEF InstallTypes
<1>8. OwnInv'
  <2>1. OwnJob(i)'
    BY <1>2, <1>3 DEF OwnJob, InstallSteps
  <2>2. \A j \in Installers \ {i} : OwnJob(j)'
    BY <1>0, <1>1, <1>3 DEF OwnInv, OwnJob
  <2> QED
    BY <2>1, <2>2 DEF OwnInv
<1>9. \A j \in Installers, m \in PluginNames : HasAside(j, m)' <=> HasAside(j, m)
  BY <1>1, <1>3 DEF HasAside
<1>10. AsideInv'
  <2>1. \A m \in wanted : target'[m] = target[m]
    BY <1>0, <1>2, <1>4 DEF InstallTypes
  <2>2. \A j \in Installers, m \in PluginNames : HasAside(j, m) => job'[j].at = job[j].at
    BY <1>1, <1>3 DEF HasAside
  <2> QED
    BY <1>0, <1>1, <1>9, <2>1, <2>2 DEF AsideInv
<1>11. AloneInv' /\ ReadInv'
  <2>1. Alone(i) => Alone(i)'
    BY <1>1, <1>2, <1>3, <1>4, InstallFields DEF Alone, n
  <2> QED
    BY <1>0, <1>1, <1>3, <2>1, StaysAlone, ReadsStay
<1>12. ListInv'
  <2>1. (\A m \in PluginNames : m = n => Late(i, m)') /\ \A j \in Installers, m \in PluginNames : Late(j, m) => Late(j, m)'
    BY <1>1, <1>3 DEF Late
  <2> QED
    BY <1>0, <1>1, <1>4, <2>1 DEF ListInv
<1>13. OnlyProvenInstalled' /\ OneCopyRemains'
  BY <1>0, <1>1, <1>2, <1>4 DEF OnlyProvenInstalled, OneCopyRemains
<1> QED
  BY <1>7, <1>8, <1>10, <1>11, <1>12, <1>13 DEF InstallInv

LEMMA WriteStep == ASSUME InstallInv, NEW i \in Installers, WriteState(i) PROVE InstallInv'
<1> DEFINE n == job[i].name
           version == IF job[i].op = "uninstall" THEN 0 ELSE job[i].entry.version
<1>0. InstallTypes /\ OwnInv /\ AsideInv /\ AloneInv /\ ReadInv /\ ListInv /\ OnlyProvenInstalled /\ OneCopyRemains
  BY DEF InstallInv
<1>1. /\ job[i].at = "write" /\ rows' = [job[i].read EXCEPT ![n] = version] /\ job' = [job EXCEPT ![i] = NoJob]
      /\ met' = met \ {i} /\ tangled' = IF i \in met THEN tangled ELSE tangled \ {n}
      /\ UNCHANGED <<catalog, target, backup, installOps, wanted>>
  BY DEF WriteState
<1>2. n \in PluginNames /\ version \in EntryVersions \cup {0} /\ job[i].read \in RowTypes
  BY <1>0, <1>1, InstallFields DEF OwnInv, OwnJob, InstallTypes, Jobs
<1>3. job' \in [Installers -> Jobs] /\ job'[i].at = "idle" /\ \A j \in Installers \ {i} : job'[j] = job[j]
  BY <1>0, <1>1, InstallFields DEF InstallTypes
<1>4. rows' \in RowTypes /\ rows'[n] = version /\ \A m \in PluginNames \ {n} : rows'[m] = job[i].read[m]
  BY <1>1, <1>2 DEF RowTypes
<1>5. InstallTypes'
  BY <1>0, <1>1, <1>3, <1>4 DEF InstallTypes
<1>6. OwnInv'
  BY <1>0, <1>1, <1>3 DEF OwnInv, OwnJob, InstallSteps
<1>7. AsideInv'
  BY <1>0, <1>1, <1>3 DEF AsideInv, HasAside
<1>8. ASSUME i \in met PROVE AloneInv' /\ ReadInv' /\ ListInv'
  <2>1. n \in tangled
    BY <1>0, <1>8 DEF AloneInv
  <2>2. \A m \in PluginNames \ tangled : rows'[m] = rows[m]
    BY <1>0, <1>1, <1>4, <2>1 DEF ReadInv
  <2>3. AloneInv'
    <3> SUFFICES ASSUME NEW j \in Installers
                 PROVE  /\ j \in met' => job'[j].at # "idle" /\ job'[j].name \in tangled'
                        /\ j \notin met' => job'[j].at = "idle"
      BY DEF AloneInv
    <3>1. CASE j = i
      BY <1>1, <1>3, <3>1
    <3>2. CASE j # i
      <4>1. job[j].at # "idle" => ~Alone(j)
        BY <1>1, <3>2 DEF Alone
      <4> QED
        BY <1>0, <1>1, <1>3, <1>8, <3>2, <4>1 DEF AloneInv
    <3> QED
      BY <3>1, <3>2
  <2>4. ReadInv'
    BY <1>0, <1>1, <1>3, <1>8, <2>2 DEF ReadInv
  <2>5. ListInv'
    <3>1. \A j \in Installers, m \in PluginNames \ tangled : Late(j, m) => Late(j, m)'
      BY <1>1, <1>3, <2>1 DEF Late
    <3> QED
      BY <1>0, <1>1, <1>8, <2>2, <3>1 DEF ListInv
  <2> QED
    BY <2>3, <2>4, <2>5
<1>9. ASSUME i \notin met PROVE AloneInv' /\ ReadInv' /\ ListInv'
  <2>1. Alone(i)
    BY <1>0, <1>1, <1>9 DEF AloneInv
  <2>2. \A j \in Installers : job'[j].at = "idle" /\ j \notin met'
    BY <1>0, <1>1, <1>3, <2>1 DEF Alone, AloneInv
  <2>3. AloneInv' /\ ReadInv'
    BY <2>2 DEF AloneInv, ReadInv
  <2>4. ListInv'
    <3> SUFFICES ASSUME NEW m \in PluginNames \ tangled' PROVE rows'[m] = target[m].version
      BY <1>1 DEF ListInv
    <3>1. CASE m = n
      BY <1>1, <1>4, <2>1, <3>1 DEF Alone
    <3>2. CASE m # n
      <4>1. m \notin tangled /\ rows'[m] = rows[m]
        BY <1>0, <1>1, <1>4, <1>9, <3>2 DEF ReadInv
      <4>2. \A j \in Installers : ~Late(j, m)
        BY <2>1, <3>2 DEF Alone, Late
      <4> QED
        BY <1>0, <4>1, <4>2 DEF ListInv
    <3> QED
      BY <3>1, <3>2
  <2> QED
    BY <2>3, <2>4
<1>10. AloneInv' /\ ReadInv' /\ ListInv'
  BY <1>8, <1>9
<1>11. OnlyProvenInstalled' /\ OneCopyRemains'
  BY <1>0, <1>1 DEF OnlyProvenInstalled, OneCopyRemains
<1> QED
  BY <1>5, <1>6, <1>7, <1>10, <1>11 DEF InstallInv

LEMMA InstallNextInv == ASSUME InstallInv, InstallerNext PROVE InstallInv'
<1>0. /\ InstallTypes /\ OwnInv /\ job \in [Installers -> Jobs]
      /\ \A i \in Installers : job[i].at # "idle" => job[i].name \in PluginNames
  BY DEF InstallInv, InstallTypes, OwnInv, OwnJob
<1>1. ASSUME NEW n \in PluginNames, PublishEntry(n) PROVE InstallInv'
  <2>1. catalog' \in [PluginNames -> Entries] /\ UNCHANGED <<target, backup, rows, job, installOps, met, tangled, wanted>>
    BY <1>0, <1>1 DEF PublishEntry, InstallTypes
  <2>2. InstallTypes'
    BY <1>0, <2>1 DEF InstallTypes
  <2>3. OwnInv' /\ AsideInv' /\ AloneInv' /\ ReadInv' /\ ListInv'
    BY <2>1 DEF InstallInv, OwnInv, OwnJob, AsideInv, HasAside, AloneInv, Alone, ReadInv, ListInv, Late
  <2> QED
    BY <2>1, <2>2, <2>3 DEF InstallInv, OnlyProvenInstalled, OneCopyRemains
<1>2. ASSUME NEW i \in Installers, GetEntry(i) PROVE InstallInv'
  <2>s. PICK one : one = [job EXCEPT ![i].at = "download"]
    OBVIOUS
  <2>1. /\ job[i].at = "get" /\ job' = [one EXCEPT ![i].entry = catalog[job[i].name]]
        /\ UNCHANGED <<catalog, target, backup, rows, met, tangled, wanted>>
    BY <1>2, <2>s DEF GetEntry
  <2>2. catalog[job[i].name] \in Entries
    BY <1>0, <2>1 DEF InstallTypes
  <2>3. /\ one \in [Installers -> Jobs] /\ one[i].at = "download" /\ one[i].op = job[i].op /\ one[i].name = job[i].name
        /\ one[i].before = job[i].before /\ \A j \in Installers \ {i} : one[j] = job[j]
    BY <1>0, <2>s, SetStep DEF JobSteps
  <2>4. /\ job' \in [Installers -> Jobs] /\ job'[i].at = "download" /\ job'[i].op = job[i].op /\ job'[i].name = job[i].name
        /\ job'[i].before = job[i].before /\ \A j \in Installers \ {i} : job'[j] = job[j]
    BY <2>1, <2>2, <2>3 DEF Jobs
  <2>5. OwnJob(i)'
    BY <1>0, <2>1, <2>4 DEF OwnInv, OwnJob, InstallSteps
  <2>6. Alone(i) => Alone(i)'
    BY <2>1, <2>4 DEF Alone
  <2> QED
    BY <2>1, <2>4, <2>5, <2>6, MoveStep
<1>3. ASSUME NEW i \in Installers, DownloadAndVerify(i) PROVE InstallInv'
  <2>s. PICK one : one = [job EXCEPT ![i].at = "verify"]
    OBVIOUS
  <2>1. /\ job[i].at = "download" /\ job' = [one EXCEPT ![i].staged = Tree(job[i].entry)]
        /\ UNCHANGED <<catalog, target, backup, rows, met, tangled, wanted>>
    BY <1>3, <2>s DEF DownloadAndVerify
  <2>2. Tree(job[i].entry) \in Trees
    <3>1. job[i].entry \in Entries \cup {NoJob.entry}
      BY <1>0 DEF Jobs
    <3> QED
      BY <3>1, InstallFields
  <2>3. /\ one \in [Installers -> Jobs] /\ one[i].at = "verify" /\ one[i].op = job[i].op /\ one[i].name = job[i].name
        /\ one[i].entry = job[i].entry /\ one[i].before = job[i].before /\ \A j \in Installers \ {i} : one[j] = job[j]
    BY <1>0, <2>s, SetStep DEF JobSteps
  <2>4. /\ job' \in [Installers -> Jobs] /\ job'[i].at = "verify" /\ job'[i].op = job[i].op /\ job'[i].name = job[i].name
        /\ job'[i].entry = job[i].entry /\ job'[i].staged = Tree(job[i].entry)
        /\ job'[i].before = job[i].before /\ \A j \in Installers \ {i} : job'[j] = job[j]
    BY <2>1, <2>2, <2>3 DEF Jobs
  <2>5. OwnJob(i)'
    BY <1>0, <2>1, <2>4 DEF OwnInv, OwnJob, InstallSteps
  <2>6. Alone(i) => Alone(i)'
    BY <2>1, <2>4 DEF Alone
  <2> QED
    BY <2>1, <2>4, <2>5, <2>6, MoveStep
<1>4. ASSUME NEW i \in Installers, Verify(i) PROVE InstallInv'
  <2>1. /\ job[i].at = "verify" /\ job[i].entry.genuine /\ job' = [job EXCEPT ![i].at = "extract"]
        /\ UNCHANGED <<catalog, target, backup, rows, met, tangled, wanted>>
    BY <1>4 DEF Verify, Step
  <2>2. job[i].entry \in Entries \cup {NoJob.entry}
    BY <1>0 DEF Jobs
  <2>3. job[i].staged = Tree(job[i].entry) /\ job[i].staged.proven
    BY <1>0, <2>1, <2>2, InstallFields DEF OwnInv, OwnJob
  <2>4. /\ job' \in [Installers -> Jobs] /\ job'[i].at = "extract" /\ job'[i].op = job[i].op /\ job'[i].name = job[i].name
        /\ job'[i].entry = job[i].entry /\ job'[i].staged = job[i].staged
        /\ job'[i].before = job[i].before /\ \A j \in Installers \ {i} : job'[j] = job[j]
    BY <1>0, <2>1, SetStep DEF JobSteps
  <2>5. OwnJob(i)'
    BY <1>0, <2>1, <2>3, <2>4 DEF OwnInv, OwnJob, InstallSteps
  <2>6. Alone(i) => Alone(i)'
    BY <2>1, <2>4 DEF Alone
  <2> QED
    BY <2>1, <2>4, <2>5, <2>6, MoveStep
<1>5. ASSUME NEW i \in Installers, ExtractTarGz(i) PROVE InstallInv'
  <2> DEFINE next == IF target[job[i].name] = Nothing THEN "swap" ELSE "set_aside"
  <2>s. PICK one : one = [job EXCEPT ![i].at = next]
    OBVIOUS
  <2>1. /\ job[i].at = "extract" /\ job' = [one EXCEPT ![i].existed = target[job[i].name] # Nothing]
        /\ UNCHANGED <<catalog, target, backup, rows, met, tangled, wanted>>
    BY <1>5, <2>s DEF ExtractTarGz
  <2>2. next \in JobSteps
    BY DEF JobSteps
  <2>3. /\ one \in [Installers -> Jobs] /\ one[i].at = next /\ one[i].op = job[i].op /\ one[i].name = job[i].name
        /\ one[i].entry = job[i].entry /\ one[i].staged = job[i].staged
        /\ one[i].before = job[i].before /\ \A j \in Installers \ {i} : one[j] = job[j]
    BY <1>0, <2>s, <2>2, SetStep
  <2>4. PICK existed \in BOOLEAN : existed = (target[job[i].name] # Nothing)
    OBVIOUS
  <2>5. /\ next = "swap" => ~existed /\ target[job[i].name] = Nothing
        /\ next = "set_aside" => existed
        /\ next \in {"swap", "set_aside"}
    BY <2>4
  <2> HIDE DEF next
  <2>6. job' = [one EXCEPT ![i].existed = existed]
    BY <2>1, <2>4
  <2>7. /\ job' \in [Installers -> Jobs] /\ job'[i].at = next /\ job'[i].op = job[i].op /\ job'[i].name = job[i].name
        /\ job'[i].entry = job[i].entry /\ job'[i].staged = job[i].staged /\ job'[i].existed = existed
        /\ job'[i].before = job[i].before /\ \A j \in Installers \ {i} : job'[j] = job[j]
    BY <2>3, <2>6 DEF Jobs
  <2>8. OwnJob(i)'
    BY <1>0, <2>1, <2>5, <2>7 DEF OwnInv, OwnJob, InstallSteps
  <2>9. Alone(i) => Alone(i)'
    BY <2>1, <2>5, <2>7 DEF Alone
  <2> QED
    BY <2>1, <2>5, <2>7, <2>8, <2>9, MoveStep
<1>6. ASSUME NEW i \in Installers, ReadState(i) PROVE InstallInv'
  <2>s. PICK one : one = [job EXCEPT ![i].at = "write"]
    OBVIOUS
  <2>1. /\ job[i].at = "read" /\ job' = [one EXCEPT ![i].read = rows]
        /\ UNCHANGED <<catalog, target, backup, rows, met, tangled, wanted>>
    BY <1>6, <2>s DEF ReadState
  <2>2. rows \in RowTypes
    BY <1>0 DEF InstallTypes
  <2>3. /\ one \in [Installers -> Jobs] /\ one[i].at = "write" /\ one[i].op = job[i].op /\ one[i].name = job[i].name
        /\ one[i].entry = job[i].entry /\ \A j \in Installers \ {i} : one[j] = job[j]
    BY <1>0, <2>s, SetStep DEF JobSteps
  <2>4. /\ job' \in [Installers -> Jobs] /\ job'[i].at = "write" /\ job'[i].op = job[i].op /\ job'[i].name = job[i].name
        /\ job'[i].entry = job[i].entry /\ job'[i].read = rows
        /\ \A j \in Installers \ {i} : job'[j] = job[j]
    BY <2>1, <2>2, <2>3 DEF Jobs
  <2>5. OwnJob(i)'
    BY <1>0, <2>1, <2>4 DEF OwnInv, OwnJob, InstallSteps
  <2>6. Alone(i) => Alone(i)'
    BY <2>1, <2>4 DEF Alone
  <2> QED
    BY <2>1, <2>4, <2>5, <2>6, MoveStep
<1>7. ASSUME NEW i \in Installers, JobFails(i) \/ ProcessEnds(i) PROVE InstallInv'
  BY <1>7, EndStep DEF JobFails, ProcessEnds
<1> QED
  BY <1>1, <1>2, <1>3, <1>4, <1>5, <1>6, <1>7, BeginStep, SetAsideStep, SwapInStep, SwapFailsStep, ClearStep, RemoveStep,
     WriteStep DEF InstallerNext

(* What the installer promises. *)
LEMMA InstallerKeeps == InstallInv => OnlyProvenInstalled /\ OneCopyRemains /\ ListTellsTheTruth
BY DEF InstallInv, ListInv, Late, ListTellsTheTruth

FailureStep ==
  \A i \in Installers :
    job[i].op = "install" /\ job[i].at \in {"get", "download", "verify", "extract", "set_aside", "swap"}
    /\ job'[i].op = "failed" /\ i \notin met =>
      \/ target'[job[i].name] = job[i].before
      \/ job[i].at = "swap" /\ target'[job[i].name] = Nothing /\ backup'[job[i].name] = job[i].before

LEMMA FailureHolds == ASSUME InstallInv, InstallerNext PROVE FailureStep
<1> DEFINE kept(i) == \/ target'[job[i].name] = job[i].before
                      \/ job[i].at = "swap" /\ target'[job[i].name] = Nothing /\ backup'[job[i].name] = job[i].before
<1> SUFFICES ASSUME NEW i \in Installers, job[i].op = "install",
                    job[i].at \in {"get", "download", "verify", "extract", "set_aside", "swap"},
                    job'[i].op = "failed", i \notin met
             PROVE  kept(i)
  BY DEF FailureStep
<1>0. /\ InstallTypes /\ job \in [Installers -> Jobs] /\ Alone(i) /\ OwnJob(i) /\ AsideInv
      /\ job[i].name \in PluginNames /\ target \in [PluginNames -> Trees]
  BY DEF InstallInv, InstallTypes, AloneInv, OwnInv, OwnJob
<1>1. \A j \in Installers \ {i} : job[j].at = "idle"
  BY <1>0 DEF Alone
<1>2. ASSUME NEW j \in Installers, JobFails(j) PROVE kept(i)
  <2>1. j = i /\ target' = target /\ job[i].at # "swap"
    BY <1>1, <1>2 DEF JobFails
  <2> QED
    BY <1>0, <2>1 DEF Alone
<1>3. ASSUME NEW j \in Installers, SwapFails(j) PROVE kept(i)
  <2>1. j = i /\ job[i].at = "swap"
    BY <1>1, <1>3 DEF SwapFails
  <2>2. /\ target[job[i].name] = Nothing
        /\ job[i].before = IF job[i].existed THEN backup[job[i].name] ELSE Nothing
    BY <1>0, <2>1 DEF Alone
  <2>3. CASE UNCHANGED <<target, backup>>
    BY <2>1, <2>2, <2>3
  <2>4. CASE job[i].existed /\ target' = [target EXCEPT ![job[i].name] = backup[job[i].name]]
    BY <1>0, <2>2, <2>4
  <2> QED
    BY <1>3, <2>1, <2>3, <2>4 DEF SwapFails
<1>4. ASSUME NEW j \in Installers, NEW new \in Jobs, job' = [job EXCEPT ![j] = new], new.op # "failed" PROVE FALSE
  BY <1>0, <1>4
<1>5. ASSUME NEW j \in Installers, NEW o \in {"install", "uninstall"}, NEW n \in PluginNames, BeginJob(j, o, n) PROVE FALSE
  <2> DEFINE new == [NoJob EXCEPT !.op = o, !.name = n, !.before = target[n],
                                  !.at = IF o = "install" THEN "get" ELSE "remove"]
  <2>1. new \in Jobs /\ new.op = o
    <3>1. target[n] \in Trees
      BY <1>0
    <3> QED
      BY <3>1, InstallFields DEF Jobs, JobSteps
  <2>2. job' = [job EXCEPT ![j] = new]
    BY <1>5 DEF BeginJob
  <2> HIDE DEF new
  <2> QED
    BY <1>4, <2>1, <2>2
<1>6. ASSUME NEW j \in Installers, WriteState(j) \/ ProcessEnds(j) PROVE FALSE
  BY <1>4, <1>6, InstallFields DEF WriteState, ProcessEnds, Abandon
<1>7. ASSUME NEW j \in Installers, NEW at \in JobSteps, job' = [job EXCEPT ![j].at = at] PROVE FALSE
  <2>1. job'[j].op = job[j].op /\ \A k \in Installers \ {j} : job'[k] = job[k]
    BY <1>0, <1>7, SetStep
  <2> QED
    BY <2>1
<1>8. ASSUME NEW j \in Installers, NEW at \in JobSteps, NEW one, one = [job EXCEPT ![j].at = at],
             \/ \E e : job' = [one EXCEPT ![j].entry = e]
             \/ \E s : job' = [one EXCEPT ![j].staged = s]
             \/ \E x : job' = [one EXCEPT ![j].existed = x]
             \/ \E r : job' = [one EXCEPT ![j].read = r]
      PROVE FALSE
  <2>1. one \in [Installers -> Jobs] /\ one[j].op = job[j].op /\ \A k \in Installers \ {j} : one[k] = job[k]
    BY <1>0, <1>8, SetStep
  <2>2. job'[j].op = one[j].op /\ \A k \in Installers \ {j} : job'[k] = one[k]
    BY <1>8, <2>1 DEF Jobs
  <2> QED
    BY <2>1, <2>2
<1>9. ASSUME NEW j \in Installers, GetEntry(j) \/ DownloadAndVerify(j) \/ ReadState(j) \/ ExtractTarGz(j) PROVE FALSE
  <2>1. ASSUME NEW at \in JobSteps,
               \/ \E e : job' = [job EXCEPT ![j].at = at, ![j].entry = e]
               \/ \E s : job' = [job EXCEPT ![j].at = at, ![j].staged = s]
               \/ \E x : job' = [job EXCEPT ![j].at = at, ![j].existed = x]
               \/ \E r : job' = [job EXCEPT ![j].at = at, ![j].read = r]
        PROVE  FALSE
    <3>1. PICK one : one = [job EXCEPT ![j].at = at]
      OBVIOUS
    <3> QED
      BY <1>8, <2>1, <3>1
  <2>2. {"download", "verify", "write", "swap", "set_aside"} \subseteq JobSteps
    BY DEF JobSteps
  <2>3. CASE GetEntry(j)
    BY <2>1, <2>2, <2>3 DEF GetEntry
  <2>4. CASE DownloadAndVerify(j)
    BY <2>1, <2>2, <2>4 DEF DownloadAndVerify
  <2>5. CASE ReadState(j)
    BY <2>1, <2>2, <2>5 DEF ReadState
  <2>6. CASE ExtractTarGz(j)
    <3>1. PICK at \in JobSteps : at = IF target[job[j].name] = Nothing THEN "swap" ELSE "set_aside"
      BY <2>2
    <3> QED
      BY <2>1, <2>6, <3>1 DEF ExtractTarGz
  <2> QED
    BY <1>9, <2>3, <2>4, <2>5, <2>6
<1>10. ASSUME NEW j \in Installers, Verify(j) \/ SetAside(j) \/ ClearBackup(j) \/ RemoveTarget(j) PROVE FALSE
  <2>1. \E at \in {"extract", "swap", "read"} : job' = [job EXCEPT ![j].at = at]
    BY <1>10 DEF Verify, SetAside, ClearBackup, RemoveTarget, Step
  <2> QED
    BY <1>7, <2>1 DEF JobSteps
<1>11. ASSUME NEW j \in Installers, SwapIn(j) PROVE FALSE
  <2>1. PICK at \in JobSteps : at = IF job[j].existed THEN "clear" ELSE "read"
    BY DEF JobSteps
  <2>2. job' = [job EXCEPT ![j].at = at]
    BY <1>11, <2>1 DEF SwapIn, Step
  <2> QED
    BY <1>7, <2>2
<1>12. ASSUME NEW n \in PluginNames, PublishEntry(n) PROVE FALSE
  BY <1>12 DEF PublishEntry
<1> QED
  BY <1>2, <1>3, <1>5, <1>6, <1>9, <1>10, <1>11, <1>12 DEF InstallerNext

-----------------------------------------------------------------------------
(* The plugin manager. Between the operations its records are those of the  *)
(* file, and both tell of the trees; while one is in hand they differ for    *)
(* its plugin alone. The choices in memory are those of the file, unless a   *)
(* write of them failed.                                                     *)
RecordMaps == [PluginIds -> Records]
Managers == [live : BOOLEAN, records : RecordMaps, enabled : Settings,
             op : {"none", "install", "update", "uninstall", "enable", "disable"}, id : PluginIds \cup {"none"},
             at : {"idle", "remove", "copy", "record", "save", "enable"}]
ManagerTypes ==
  /\ tree \in [PluginIds -> Versions] /\ source \in [PluginIds -> Versions] /\ manager \in Managers
  /\ registryFile = <<Torn>> \/ \E records \in RecordMaps : registryFile = File(records)
  /\ settingsFile = <<Torn>> \/ \E enabled \in Settings : settingsFile = File(enabled)
  /\ damaged \subseteq PluginIds \cup {"settings"} /\ choice \in Settings
AtInv ==
  /\ manager.at # "idle" => manager.live /\ manager.id \in PluginIds
  /\ manager.at = "copy" => manager.op # "uninstall"
  /\ manager.at = "record" => (manager.op = "uninstall" <=> tree[manager.id] = 0)
InHand(p) == manager.at \in {"copy", "record", "save"} /\ manager.id = p
RecordOf(p) == IF tree[p] = 0 THEN NoRecord ELSE [version |-> tree[p], installed |-> TRUE]
RecordInv ==
  /\ \A p \in ExternalIds \ damaged : ~InHand(p) =>
       /\ manager.live => manager.records[p] = RecordOf(p)
       /\ registryFile # <<Torn>> => registryFile[2][p] = RecordOf(p)
  /\ manager.at = "save" => manager.records[manager.id] = RecordOf(manager.id)
ChoiceInv ==
  "settings" \notin damaged => settingsFile = File(choice) /\ (manager.live => manager.enabled = choice)
ManagerInv == ManagerTypes /\ AtInv /\ RecordInv /\ ChoiceInv

LEMMA FileIs == \A value : File(value) # <<Torn>> /\ File(value)[2] = value
<1>1. \A value : File(value)[1] = "ok" /\ File(value)[2] = value
  BY DEF File
<1>2. <<Torn>>[1] = "torn"
  BY DEF Torn
<1> QED
  BY <1>1, <1>2

LEMMA ManagerFields ==
  /\ NoRecord \in Records /\ Down \in Managers /\ Down.at = "idle" /\ Down.live = FALSE
  /\ Down.records \in RecordMaps /\ (\A p \in PluginIds : Down.records[p] = NoRecord) /\ Down.enabled \in Settings
  /\ 0 \in Versions /\ 1 \in Versions
<1>1. 0 \in Versions /\ 1 \in Versions
  BY PluginsAssumption DEF Versions
<1>2. NoRecord \in Records
  BY <1>1 DEF NoRecord, Records
<1>3. [p \in PluginIds |-> NoRecord] \in RecordMaps /\ [p \in PluginIds |-> "unset"] \in Settings
  BY <1>2 DEF RecordMaps, Settings
<1>4. Down \in Managers /\ Down.at = "idle" /\ Down.live = FALSE /\ Down.records = [p \in PluginIds |-> NoRecord]
      /\ Down.enabled = [p \in PluginIds |-> "unset"]
  BY <1>3 DEF Down, Managers
<1> QED
  BY <1>1, <1>2, <1>3, <1>4

LEMMA ManagerInitInv == PluginsInit => ManagerInv
<1> SUFFICES ASSUME PluginsInit PROVE ManagerInv
  OBVIOUS
<1>1. registryFile = File(Down.records) /\ settingsFile = File(Down.enabled) /\ manager = Down /\ damaged = {}
      /\ choice = Down.enabled
  BY DEF PluginsInit
<1>2. ManagerTypes
  <2>1. tree \in [PluginIds -> Versions] /\ source \in [PluginIds -> Versions]
    BY ManagerFields DEF PluginsInit, Shipped
  <2> QED
    BY <1>1, <2>1, ManagerFields DEF ManagerTypes
<1>3. \A p \in ExternalIds : RecordOf(p) = NoRecord
  BY PluginsAssumption DEF PluginsInit, Shipped, RecordOf, PluginIds
<1>4. AtInv /\ ChoiceInv
  BY <1>1, ManagerFields DEF AtInv, ChoiceInv
<1>5. RecordInv
  BY <1>1, <1>3, ManagerFields, FileIs DEF RecordInv, PluginIds
<1> QED
  BY <1>2, <1>4, <1>5 DEF ManagerInv

LEMMA FinishedIs ==
  ASSUME NEW m \in Managers, NEW g, g = Finished(m)
  PROVE  g \in Managers /\ g.at = "idle" /\ g.live = m.live /\ g.records = m.records /\ g.enabled = m.enabled
<1>1. PICK one : one = [m EXCEPT !.op = "none"]
  OBVIOUS
<1>2. PICK two : two = [one EXCEPT !.id = "none"]
  OBVIOUS
<1>3. g = [two EXCEPT !.at = "idle"]
  BY <1>1, <1>2 DEF Finished
<1>4. one \in Managers /\ one.live = m.live /\ one.records = m.records /\ one.enabled = m.enabled
  BY <1>1 DEF Managers
<1>5. two \in Managers /\ two.live = m.live /\ two.records = m.records /\ two.enabled = m.enabled
  BY <1>2, <1>4 DEF Managers
<1> QED
  BY <1>3, <1>5 DEF Managers

LEMMA ManagerBeginStep ==
  ASSUME ManagerInv, NEW o \in {"install", "update", "uninstall", "enable", "disable"}, NEW p \in PluginIds,
         NEW at \in {"remove", "enable"}, Begin(o, p, at)
  PROVE  ManagerInv'
<1>1. PICK one : one = [manager EXCEPT !.op = o]
  OBVIOUS
<1>2. PICK two : two = [one EXCEPT !.id = p]
  OBVIOUS
<1>3. /\ manager \in Managers /\ manager.live /\ manager.at = "idle" /\ manager' = [two EXCEPT !.at = at]
      /\ UNCHANGED <<source, tree, registryFile, settingsFile, damaged, choice>>
  BY <1>1, <1>2 DEF Begin, ManagerInv, ManagerTypes
<1>4. one \in Managers /\ one.live = manager.live /\ one.records = manager.records /\ one.enabled = manager.enabled
  BY <1>1, <1>3 DEF Managers
<1>5. two \in Managers /\ two.live = manager.live /\ two.records = manager.records /\ two.enabled = manager.enabled
      /\ two.id = p
  BY <1>2, <1>4 DEF Managers
<1>6. manager' \in Managers /\ manager'.at = at /\ manager'.live = manager.live /\ manager'.records = manager.records
      /\ manager'.enabled = manager.enabled /\ manager'.id = p
  BY <1>3, <1>5 DEF Managers
<1>7. ManagerTypes'
  BY <1>3, <1>6 DEF ManagerInv, ManagerTypes
<1>8. AtInv'
  BY <1>3, <1>6 DEF AtInv
<1>9. RecordInv'
  BY <1>3, <1>6 DEF ManagerInv, RecordInv, InHand, RecordOf
<1>10. ChoiceInv'
  BY <1>3, <1>6 DEF ManagerInv, ChoiceInv
<1> QED
  BY <1>7, <1>8, <1>9, <1>10 DEF ManagerInv

(* A step that moves the operation in hand and rewrites no file. *)
LEMMA TreeStep == ASSUME ManagerInv, RemoveTree \/ CopyTree PROVE ManagerInv'
<1>0. /\ ManagerTypes /\ manager \in Managers /\ manager.live /\ manager.id \in PluginIds /\ AtInv
      /\ manager.at \in {"remove", "copy"}
      /\ UNCHANGED <<source, registryFile, settingsFile, damaged, choice>>
  BY DEF ManagerInv, ManagerTypes, AtInv, RemoveTree, CopyTree
<1>1. PICK v \in Versions, at \in {"record", "copy"} :
        /\ tree' = [tree EXCEPT ![manager.id] = v] /\ manager' = [manager EXCEPT !.at = at]
        /\ at = "copy" => manager.op # "uninstall"
        /\ at = "record" => (manager.op = "uninstall" <=> v = 0)
  <2>1. CASE RemoveTree
    BY <2>1, ManagerFields DEF RemoveTree, GoTo
  <2>2. CASE CopyTree
    <3>1. SourceOf(manager.id) \in Versions
      BY <1>0 DEF ManagerTypes, SourceOf
    <3> QED
      BY <1>0, <2>2, <3>1 DEF CopyTree, GoTo, AtInv
  <2> QED
    BY <2>1, <2>2
<1>2. manager' \in Managers /\ manager'.at = at /\ manager'.live = manager.live /\ manager'.records = manager.records
      /\ manager'.enabled = manager.enabled /\ manager'.op = manager.op /\ manager'.id = manager.id
  BY <1>0, <1>1 DEF Managers
<1>3. tree' \in [PluginIds -> Versions] /\ tree'[manager.id] = v /\ \A p \in PluginIds \ {manager.id} : tree'[p] = tree[p]
  BY <1>0, <1>1 DEF ManagerTypes
<1>4. ManagerTypes'
  BY <1>0, <1>2, <1>3 DEF ManagerTypes
<1>5. AtInv'
  BY <1>0, <1>1, <1>2, <1>3 DEF AtInv
<1>6. RecordInv'
  <2>1. \A p \in ExternalIds : ~InHand(p)' => p \in PluginIds \ {manager.id} /\ ~InHand(p)
    BY <1>0, <1>2 DEF InHand, PluginIds
  <2>2. \A p \in ExternalIds : ~InHand(p)' => RecordOf(p)' = RecordOf(p)
    BY <1>3, <2>1 DEF RecordOf
  <2> QED
    BY <1>0, <1>1, <1>2, <2>1, <2>2 DEF ManagerInv, RecordInv
<1>7. ChoiceInv'
  BY <1>0, <1>2 DEF ManagerInv, ChoiceInv
<1> QED
  BY <1>4, <1>5, <1>6, <1>7 DEF ManagerInv

LEMMA RecordPluginStep == ASSUME ManagerInv, RecordPlugin PROVE ManagerInv'
<1> DEFINE p == manager.id
           record == IF manager.op = "uninstall" THEN NoRecord ELSE [version |-> tree[p], installed |-> TRUE]
<1>0. /\ ManagerTypes /\ manager \in Managers /\ manager.at = "record" /\ manager.live /\ p \in PluginIds /\ AtInv
      /\ UNCHANGED <<source, tree, registryFile, settingsFile, damaged, choice>>
  BY DEF ManagerInv, ManagerTypes, AtInv, RecordPlugin
<1>1. record = RecordOf(p) /\ record \in Records
  BY <1>0, ManagerFields DEF AtInv, RecordOf, ManagerTypes, Records
<1>2. PICK one : one = [manager EXCEPT !.at = "save"]
  OBVIOUS
<1>3. one \in Managers /\ one.at = "save" /\ one.live = manager.live /\ one.records = manager.records
      /\ one.enabled = manager.enabled /\ one.op = manager.op /\ one.id = p
  BY <1>0, <1>2 DEF Managers
<1>4. manager' = [one EXCEPT !.records = [one.records EXCEPT ![p] = record]]
  BY <1>2, <1>3 DEF RecordPlugin
<1> HIDE DEF record
<1>5. PICK records : records = [one.records EXCEPT ![p] = record]
  OBVIOUS
<1>6. records \in RecordMaps /\ records[p] = record /\ \A q \in PluginIds \ {p} : records[q] = manager.records[q]
  BY <1>0, <1>1, <1>3, <1>5 DEF RecordMaps, Managers
<1>7. manager' \in Managers /\ manager'.at = "save" /\ manager'.live /\ manager'.records = records
      /\ manager'.enabled = manager.enabled /\ manager'.op = manager.op /\ manager'.id = p
  BY <1>0, <1>3, <1>4, <1>5, <1>6 DEF Managers
<1>8. ManagerTypes'
  BY <1>0, <1>7 DEF ManagerTypes
<1>9. AtInv'
  BY <1>0, <1>7 DEF AtInv
<1>10. RecordInv'
  <2>1. \A q \in PluginIds : RecordOf(q)' = RecordOf(q)
    BY <1>0 DEF RecordOf
  <2>2. \A q \in ExternalIds : ~InHand(q)' => q \in PluginIds \ {p} /\ ~InHand(q)
    BY <1>0, <1>7 DEF InHand, PluginIds
  <2>3. manager'.records[p] = RecordOf(p)
    BY <1>1, <1>6, <1>7
  <2> QED
    BY <1>0, <1>6, <1>7, <2>1, <2>2, <2>3 DEF ManagerInv, RecordInv
<1>11. ChoiceInv'
  BY <1>0, <1>7 DEF ManagerInv, ChoiceInv
<1> QED
  BY <1>8, <1>9, <1>10, <1>11 DEF ManagerInv

LEMMA SaveRegistryStep == ASSUME ManagerInv, SaveRegistry PROVE ManagerInv'
<1> DEFINE p == manager.id
<1>0. /\ ManagerTypes /\ manager \in Managers /\ manager.at = "save" /\ manager.live /\ p \in PluginIds
      /\ registryFile' = File(manager.records) /\ damaged' = damaged \ {p}
      /\ UNCHANGED <<source, tree, settingsFile, choice>>
      /\ manager' = [manager EXCEPT !.at = "enable"] \/ manager' = Finished(manager)
  BY DEF ManagerInv, ManagerTypes, AtInv, SaveRegistry
<1>1. manager' \in Managers /\ manager'.at \in {"enable", "idle"} /\ manager'.live = manager.live
      /\ manager'.records = manager.records /\ manager'.enabled = manager.enabled
      /\ (manager'.at # "idle" => manager'.id = p)
  <2>1. CASE manager' = [manager EXCEPT !.at = "enable"]
    BY <1>0, <2>1 DEF Managers
  <2>2. CASE manager' = Finished(manager)
    BY <1>0, <2>2, FinishedIs
  <2> QED
    BY <1>0, <2>1, <2>2
<1>2. manager.records \in RecordMaps
  BY <1>0 DEF Managers
<1>3. ManagerTypes'
  BY <1>0, <1>1, <1>2 DEF ManagerTypes
<1>4. AtInv'
  BY <1>0, <1>1 DEF AtInv
<1>5. RecordInv'
  <2>1. \A q \in PluginIds : RecordOf(q)' = RecordOf(q)
    BY <1>0 DEF RecordOf
  <2>2. \A q \in ExternalIds : q # p => ~InHand(q)
    BY DEF InHand
  <2>3. registryFile'[2] = manager.records /\ manager.records[p] = RecordOf(p)
    BY <1>0, FileIs DEF ManagerInv, RecordInv
  <2> QED
    BY <1>0, <1>1, <2>1, <2>2, <2>3 DEF ManagerInv, RecordInv, PluginIds
<1>6. ChoiceInv'
  BY <1>0, <1>1, PluginsAssumption DEF ManagerInv, ChoiceInv, PluginIds
<1> QED
  BY <1>3, <1>4, <1>5, <1>6 DEF ManagerInv

LEMMA SaveEnabledStep == ASSUME ManagerInv, SaveEnabled PROVE ManagerInv'
<1> DEFINE enabled == [manager.enabled EXCEPT ![manager.id] = IF manager.op = "disable" THEN "off" ELSE "on"]
<1>0. /\ ManagerTypes /\ manager \in Managers /\ manager.at = "enable" /\ manager.live /\ manager.id \in PluginIds
      /\ manager' = Finished([manager EXCEPT !.enabled = enabled])
      /\ settingsFile' = File(enabled) /\ choice' = enabled /\ damaged' = damaged \ {"settings"}
      /\ UNCHANGED <<source, tree, registryFile>>
  BY DEF ManagerInv, ManagerTypes, AtInv, SaveEnabled
<1>1. enabled \in Settings
  BY <1>0 DEF Managers, Settings
<1> HIDE DEF enabled
<1>2. PICK one : one = [manager EXCEPT !.enabled = enabled]
  OBVIOUS
<1>3. one \in Managers /\ one.enabled = enabled /\ one.live = manager.live /\ one.records = manager.records
  BY <1>0, <1>1, <1>2 DEF Managers
<1>4. manager' \in Managers /\ manager'.at = "idle" /\ manager'.live /\ manager'.records = manager.records
      /\ manager'.enabled = enabled
  BY <1>0, <1>2, <1>3, FinishedIs
<1>5. ManagerTypes'
  BY <1>0, <1>1, <1>4 DEF ManagerTypes
<1>6. AtInv' /\ ChoiceInv'
  BY <1>0, <1>4 DEF AtInv, ChoiceInv
<1>7. RecordInv'
  <2>1. \A q \in ExternalIds : ~InHand(q) /\ q # "settings" /\ RecordOf(q)' = RecordOf(q)
    BY <1>0, PluginsAssumption DEF InHand, RecordOf
  <2> QED
    BY <1>0, <1>4, <2>1 DEF ManagerInv, RecordInv
<1> QED
  BY <1>5, <1>6, <1>7 DEF ManagerInv

(* A step that failed or was cut off: what it was about is damaged. *)
LEMMA StopStep ==
  ASSUME ManagerInv, manager' \in Managers, manager'.at = "idle", manager'.live => manager.live,
         manager'.live => manager'.records = manager.records,
         manager'.live => manager'.enabled = manager.enabled \/ manager.at = "enable",
         registryFile' \in IF manager.at = "save" THEN {registryFile, <<Torn>>} ELSE {registryFile},
         settingsFile' \in IF manager.at = "enable" THEN {settingsFile, <<Torn>>} ELSE {settingsFile},
         damaged' = IF manager.at = "idle" THEN damaged ELSE damaged \cup {Touched},
         UNCHANGED <<source, tree, choice>>
  PROVE  ManagerInv'
<1>0. ManagerTypes /\ registryFile' \in {registryFile, <<Torn>>} /\ settingsFile' \in {settingsFile, <<Torn>>}
      /\ damaged \subseteq damaged' /\ damaged' \subseteq damaged \cup {Touched}
  BY DEF ManagerInv
<1>1. manager.at # "idle" => Touched \in PluginIds \cup {"settings"}
  BY DEF ManagerInv, AtInv, Touched
<1>2. damaged' \subseteq PluginIds \cup {"settings"}
  BY <1>0, <1>1 DEF ManagerTypes
<1>3. ManagerTypes'
  <2>1. registryFile' = <<Torn>> \/ \E records \in RecordMaps : registryFile' = File(records)
    BY <1>0 DEF ManagerTypes
  <2>2. settingsFile' = <<Torn>> \/ \E enabled \in Settings : settingsFile' = File(enabled)
    BY <1>0 DEF ManagerTypes
  <2> QED
    BY <1>0, <1>2, <2>1, <2>2 DEF ManagerTypes
<1>4. AtInv'
  BY DEF AtInv
<1>5. RecordInv'
  <2>1. \A p \in ExternalIds \ damaged' : ~InHand(p) /\ p \notin damaged /\ RecordOf(p)' = RecordOf(p)
    BY <1>0 DEF InHand, RecordOf, Touched
  <2> QED
    BY <1>0, <2>1 DEF ManagerInv, RecordInv
<1>6. ChoiceInv'
  <2>1. "settings" \notin damaged' => "settings" \notin damaged /\ manager.at # "enable"
    BY <1>0 DEF Touched
  <2> QED
    BY <2>1 DEF ManagerInv, ChoiceInv
<1> QED
  BY <1>3, <1>4, <1>5, <1>6 DEF ManagerInv

LEMMA ManagerNextInv == ASSUME ManagerInv, PluginsNext PROVE ManagerInv'
<1>0. ManagerTypes /\ manager \in Managers /\ manager.records \in RecordMaps /\ manager.enabled \in Settings
  BY DEF ManagerInv, ManagerTypes, Managers
<1>1. ASSUME NewPluginManager PROVE ManagerInv'
  <2>1. PICK records \in RecordMaps : registryFile = File(records)
    BY <1>0, <1>1 DEF NewPluginManager, ManagerTypes
  <2>2. PICK enabled \in Settings : enabled = IF settingsFile = <<Torn>> THEN Down.enabled ELSE settingsFile[2]
    BY <1>0, ManagerFields, FileIs DEF ManagerTypes
  <2>3. PICK one : one = [Down EXCEPT !.live = TRUE]
    OBVIOUS
  <2>4. PICK two : two = [one EXCEPT !.records = records]
    OBVIOUS
  <2>5. /\ ~manager.live /\ registryFile # <<Torn>> /\ manager' = [two EXCEPT !.enabled = enabled]
        /\ UNCHANGED <<source, tree, registryFile, settingsFile, damaged, choice>>
    BY <1>1, <2>1, <2>2, <2>3, <2>4, FileIs DEF NewPluginManager
  <2>6. one \in Managers /\ one.live /\ one.at = "idle"
    BY <2>3, ManagerFields DEF Managers
  <2>7. two \in Managers /\ two.live /\ two.at = "idle" /\ two.records = records
    BY <2>4, <2>6 DEF Managers
  <2>8. manager' \in Managers /\ manager'.live /\ manager'.at = "idle" /\ manager'.records = records /\ manager'.enabled = enabled
    BY <2>5, <2>7 DEF Managers
  <2>9. ManagerTypes'
    BY <1>0, <2>5, <2>8 DEF ManagerTypes
  <2>10. AtInv'
    BY <2>8 DEF AtInv
  <2>11. RecordInv'
    <3>1. \A p \in ExternalIds : ~InHand(p) /\ RecordOf(p)' = RecordOf(p)
      BY <2>5 DEF ManagerInv, AtInv, InHand, RecordOf
    <3> QED
      BY <2>1, <2>5, <2>8, <3>1, FileIs DEF ManagerInv, RecordInv
  <2>12. ChoiceInv'
    BY <2>2, <2>5, <2>8, FileIs DEF ManagerInv, ChoiceInv
  <2> QED
    BY <2>9, <2>10, <2>11, <2>12 DEF ManagerInv
<1>2. ASSUME ManagerEnds PROVE ManagerInv'
  <2>1. /\ manager' = Down
        /\ registryFile' \in IF manager.at = "save" THEN {registryFile, <<Torn>>} ELSE {registryFile}
        /\ settingsFile' \in IF manager.at = "enable" THEN {settingsFile, <<Torn>>} ELSE {settingsFile}
        /\ damaged' = IF manager.at = "idle" THEN damaged ELSE damaged \cup {Touched}
        /\ UNCHANGED <<source, tree, choice>>
    BY <1>2 DEF ManagerEnds
  <2>2. manager' \in Managers /\ manager'.at = "idle" /\ ~manager'.live
    BY <2>1, ManagerFields
  <2> QED
    BY <2>1, <2>2, StopStep
<1>3. ASSUME StepFails PROVE ManagerInv'
  <2>1. /\ manager.at # "idle"
        /\ registryFile' \in IF manager.at = "save" THEN {registryFile, <<Torn>>} ELSE {registryFile}
        /\ settingsFile' \in IF manager.at = "enable" THEN {settingsFile, <<Torn>>} ELSE {settingsFile}
        /\ damaged' = damaged \cup {Touched}
        /\ UNCHANGED <<source, tree, choice>>
    BY <1>3 DEF StepFails
  <2>2. /\ manager' \in Managers /\ manager'.at = "idle" /\ manager'.live = manager.live /\ manager'.records = manager.records
        /\ manager'.enabled = manager.enabled \/ manager.at = "enable"
    <3>1. CASE manager.at = "enable"
      <4>1. PICK on \in {"on", "off"} : on = IF manager.op = "disable" THEN "off" ELSE "on"
        OBVIOUS
      <4>2. PICK enabled : enabled = [manager.enabled EXCEPT ![manager.id] = on]
        OBVIOUS
      <4>3. PICK one : one = [manager EXCEPT !.enabled = enabled]
        OBVIOUS
      <4>4. enabled \in Settings
        BY <1>0, <4>2 DEF Settings
      <4>5. one \in Managers /\ one.live = manager.live /\ one.records = manager.records
        BY <1>0, <4>3, <4>4 DEF Managers
      <4>6. manager' = Finished(one)
        BY <1>3, <3>1, <4>1, <4>2, <4>3 DEF StepFails
      <4> QED
        BY <3>1, <4>5, <4>6, FinishedIs
    <3>2. CASE manager.at # "enable"
      <4>1. manager' = Finished(manager)
        BY <1>3, <3>2 DEF StepFails
      <4> QED
        BY <1>0, <4>1, FinishedIs
    <3> QED
      BY <3>1, <3>2
  <2> QED
    BY <2>1, <2>2, StopStep
<1>4. ASSUME SyncBundledPlugins PROVE ManagerInv'
  <2>1. PICK records : records = [p \in PluginIds |->
           IF p \notin BundledIds THEN manager.records[p]
           ELSE IF tree[p] # 0 THEN [version |-> tree[p], installed |-> TRUE] ELSE NoRecord]
    OBVIOUS
  <2>2. /\ manager.live /\ manager.at = "idle" /\ manager' = [manager EXCEPT !.records = records]
        /\ registryFile' = File(records)
        /\ UNCHANGED <<source, tree, settingsFile, damaged, choice>>
    BY <1>4, <2>1 DEF SyncBundledPlugins
  <2>3. \A v \in Versions : [version |-> v, installed |-> TRUE] \in Records
    BY DEF Records
  <2>4. records \in RecordMaps /\ \A p \in ExternalIds : records[p] = manager.records[p]
    BY <1>0, <2>1, <2>3, ManagerFields, PluginsAssumption DEF ManagerTypes, RecordMaps, PluginIds
  <2>5. manager' \in Managers /\ manager'.live /\ manager'.at = "idle" /\ manager'.records = records
        /\ manager'.enabled = manager.enabled
    BY <1>0, <2>2, <2>4 DEF Managers
  <2>6. ManagerTypes'
    BY <1>0, <2>2, <2>4, <2>5 DEF ManagerTypes
  <2>7. AtInv' /\ ChoiceInv'
    BY <2>2, <2>5 DEF ManagerInv, AtInv, ChoiceInv
  <2>8. RecordInv'
    <3>1. \A p \in ExternalIds : ~InHand(p) /\ RecordOf(p)' = RecordOf(p)
      BY <2>2 DEF InHand, RecordOf
    <3> QED
      BY <2>2, <2>4, <2>5, <3>1, FileIs DEF ManagerInv, RecordInv
  <2> QED
    BY <2>6, <2>7, <2>8 DEF ManagerInv
<1>5. ASSUME NEW p \in PluginIds, Publish(p) PROVE ManagerInv'
  <2>1. manager.at = "idle" /\ UNCHANGED <<registryFile, settingsFile, manager, damaged, choice>>
    BY <1>5 DEF Publish
  <2>2. /\ tree' \in [PluginIds -> Versions] /\ source' \in [PluginIds -> Versions]
        /\ \A q \in ExternalIds : tree'[q] = tree[q]
    <3>1. CASE \E v \in Versions : source' = [source EXCEPT ![p] = v] /\ UNCHANGED tree
      BY <1>0, <3>1 DEF ManagerTypes
    <3>2. CASE p \in BundledIds /\ tree[p] \in 1..(MaxPluginVersion - 1) /\ tree' = [tree EXCEPT ![p] = @ + 1] /\ UNCHANGED source
      <4>1. tree[p] + 1 \in Versions
        BY <3>2, PluginsAssumption DEF Versions
      <4> QED
        BY <1>0, <3>2, <4>1, PluginsAssumption DEF ManagerTypes, PluginIds
    <3> QED
      BY <1>5, <3>1, <3>2 DEF Publish
  <2>3. ManagerTypes'
    BY <1>0, <2>1, <2>2 DEF ManagerTypes
  <2>4. AtInv' /\ ChoiceInv'
    BY <2>1 DEF ManagerInv, AtInv, ChoiceInv
  <2>5. RecordInv'
    <3>1. \A q \in ExternalIds : ~InHand(q) /\ RecordOf(q)' = RecordOf(q)
      BY <2>1, <2>2 DEF InHand, RecordOf
    <3> QED
      BY <2>1, <3>1 DEF ManagerInv, RecordInv
  <2> QED
    BY <2>3, <2>4, <2>5 DEF ManagerInv
<1>6. ASSUME NEW p \in PluginIds,
             Install(p) \/ UpdatePlugin(p) \/ Uninstall(p) \/ SetEnabled(p, "enable") \/ SetEnabled(p, "disable")
      PROVE  ManagerInv'
  BY <1>6, ManagerBeginStep DEF Install, UpdatePlugin, Uninstall, SetEnabled
<1> QED
  BY <1>1, <1>2, <1>3, <1>4, <1>5, <1>6, TreeStep, RecordPluginStep, SaveRegistryStep, SaveEnabledStep DEF PluginsNext

(* What the plugin manager promises. *)
LEMMA ManagerKeeps == ManagerInv => RecordedIsThere /\ ChoiceSurvives
<1> SUFFICES ASSUME ManagerInv PROVE RecordedIsThere /\ ChoiceSurvives
  OBVIOUS
<1>1. RecordedIsThere
  BY PluginsAssumption DEF ManagerInv, RecordInv, InHand, RecordOf, RecordedIsThere, PluginIds
<1>2. ChoiceSurvives
  BY DEF ManagerInv, ChoiceInv, ChoiceSurvives, Running
<1> QED
  BY <1>1, <1>2

(* Of a manager that is not running nothing is left.                       *)
DownInv == ~manager.live => manager = Down

LEMMA DownHolds == ASSUME ManagerInv, DownInv, PluginsNext PROVE DownInv'
<1>0. manager \in Managers /\ (manager.at # "idle" => manager.live)
  BY DEF ManagerInv, ManagerTypes, AtInv
<1>1. ASSUME NewPluginManager PROVE manager'.live
  <2>1. \A r, e : [Down EXCEPT !.live = TRUE, !.records = r, !.enabled = e].live
    BY DEF Down
  <2> QED
    BY <1>1, <2>1 DEF NewPluginManager
<1>2. ASSUME NEW o, NEW p, NEW at, Begin(o, p, at) PROVE manager'.live
  <2>1. \A a, b, c : [manager EXCEPT !.op = a, !.id = b, !.at = c].live = manager.live
    BY <1>0 DEF Managers
  <2> QED
    BY <1>2, <2>1 DEF Begin
<1>3. \A a : [manager EXCEPT !.at = a].live = manager.live
  BY <1>0 DEF Managers
<1>4. ASSUME RemoveTree \/ CopyTree PROVE manager'.live
  BY <1>0, <1>3, <1>4 DEF RemoveTree, CopyTree, GoTo
<1>5. ASSUME RecordPlugin PROVE manager'.live
  <2>1. PICK one : one = [manager EXCEPT !.at = "save"]
    OBVIOUS
  <2>2. PICK rs : manager' = [one EXCEPT !.records = rs]
    BY <1>5, <2>1 DEF RecordPlugin
  <2>3. one \in Managers /\ one.live = manager.live
    BY <1>0, <2>1 DEF Managers
  <2>4. [one EXCEPT !.records = rs].live = one.live
    BY <2>3 DEF Managers
  <2> QED
    BY <1>0, <1>5, <2>2, <2>3, <2>4 DEF RecordPlugin
<1>6. \A m \in Managers : Finished(m).live = m.live
  BY FinishedIs
<1>7. ASSUME SaveRegistry PROVE manager'.live
  BY <1>0, <1>3, <1>6, <1>7 DEF SaveRegistry
<1>8. ASSUME SaveEnabled \/ StepFails PROVE manager'.live
  <2>1. manager.enabled \in Settings
    BY <1>0 DEF Managers
  <2>2. \A on \in {"on", "off"} : [manager.enabled EXCEPT ![manager.id] = on] \in Settings
    BY <2>1 DEF Settings
  <2>3. \A e \in Settings : [manager EXCEPT !.enabled = e] \in Managers /\ [manager EXCEPT !.enabled = e].live = manager.live
    BY <1>0 DEF Managers
  <2>4. PICK on \in {"on", "off"} : on = IF manager.op = "disable" THEN "off" ELSE "on"
    OBVIOUS
  <2>5. manager' = Finished(manager) \/ manager' = Finished([manager EXCEPT !.enabled = [manager.enabled EXCEPT ![manager.id] = on]])
    BY <1>8, <2>4 DEF SaveEnabled, StepFails
  <2>6. manager.live
    BY <1>0, <1>8 DEF SaveEnabled, StepFails
  <2>7. PICK e \in Settings : e = [manager.enabled EXCEPT ![manager.id] = on]
    BY <2>2
  <2>8. PICK one \in Managers : one = [manager EXCEPT !.enabled = e] /\ one.live = manager.live
    BY <2>3
  <2>9. manager' = Finished(manager) \/ manager' = Finished(one)
    BY <2>5, <2>7, <2>8
  <2> QED
    BY <1>0, <1>6, <2>6, <2>8, <2>9
<1>9. ASSUME SyncBundledPlugins PROVE manager'.live
  <2>1. \A rs : [manager EXCEPT !.records = rs].live = manager.live
    BY <1>0 DEF Managers
  <2> QED
    BY <1>9, <2>1 DEF SyncBundledPlugins
<1>10. ASSUME NEW p \in PluginIds, Publish(p) PROVE UNCHANGED manager
  BY <1>10 DEF Publish
<1>11. ASSUME ManagerEnds PROVE manager' = Down
  BY <1>11 DEF ManagerEnds
<1>12. ASSUME NEW p \in PluginIds,
              Install(p) \/ UpdatePlugin(p) \/ Uninstall(p) \/ SetEnabled(p, "enable") \/ SetEnabled(p, "disable")
       PROVE  manager'.live
  BY <1>2, <1>12 DEF Install, UpdatePlugin, Uninstall, SetEnabled
<1> QED
  BY <1>1, <1>4, <1>5, <1>7, <1>8, <1>9, <1>10, <1>11, <1>12 DEF PluginsNext, DownInv

-----------------------------------------------------------------------------
(* Sets of numbers and sequences. *)

LEMMA Smallest == ASSUME NEW T \in SUBSET Nat, T # {} PROVE \E x \in T : \A y \in T : x <= y
<1> DEFINE R == {ss \in Nat \X Nat : ss[1] < ss[2]}
<1>1. IsWellFoundedOn(R, Nat)
  BY NatLessThanWellFounded DEF OpToRel
<1>2. PICK x \in T : \A y \in T : <<y, x>> \notin R
  BY <1>1, WFMin
<1>3. ASSUME NEW y \in T PROVE x <= y
  <2>1. ~(y < x)
    BY <1>2
  <2> QED
    BY <2>1
<1> QED
  BY <1>3

(* Removing one element of a sequence. *)
LEMMA RemoveAtProperties ==
  ASSUME NEW S, NEW s \in Seq(S), NEW i \in 1..Len(s)
  PROVE  /\ RemoveAt(s, i) \in Seq(S) /\ Len(RemoveAt(s, i)) = Len(s) - 1
         /\ \A j \in 1..Len(s) - 1 : RemoveAt(s, i)[j] = IF j < i THEN s[j] ELSE s[j + 1]
<1> DEFINE a == SubSeq(s, 1, i - 1)
           b == SubSeq(s, i + 1, Len(s))
<1>0. Len(s) \in Nat /\ \A j \in 1..Len(s) : s[j] \in S
  BY ElementOfSeq
<1>1. a \in Seq(S) /\ Len(a) = i - 1 /\ \A j \in 1..i - 1 : a[j] = s[j]
  <2>1. \A j \in 1..i - 1 : s[j] \in S
    BY <1>0
  <2>2. 1 \in Int /\ i - 1 \in Int
    BY <1>0
  <2>3. /\ SubSeq(s,1,i-1) \in Seq(S)
        /\ Len(SubSeq(s,1,i-1)) = IF 1<=i-1 THEN i-1-1+1 ELSE 0
        /\ \A j \in 1 .. i-1-1+1 : SubSeq(s,1,i-1)[j] = s[1+j-1]
    BY <2>1, <2>2, SubSeqProperties
  <2> QED
    BY <1>0, <2>3
<1>2. b \in Seq(S) /\ Len(b) = Len(s) - i /\ \A j \in 1..Len(s) - i : b[j] = s[i + j]
  <2>1. \A j \in i + 1..Len(s) : s[j] \in S
    BY <1>0
  <2>2. i + 1 \in Int /\ Len(s) \in Int
    BY <1>0
  <2>3. /\ SubSeq(s,i+1,Len(s)) \in Seq(S)
        /\ Len(SubSeq(s,i+1,Len(s))) = IF i+1<=Len(s) THEN Len(s)-(i+1)+1 ELSE 0
        /\ \A j \in 1 .. Len(s)-(i+1)+1 : SubSeq(s,i+1,Len(s))[j] = s[i+1+j-1]
    BY <2>1, <2>2, SubSeqProperties
  <2>4. \A j \in 1..Len(s) - i : i + 1 + j - 1 = i + j
    BY <1>0
  <2> QED
    BY <1>0, <2>3, <2>4
<1> HIDE DEF a, b
<1>3. /\ a \o b \in Seq(S) /\ Len(a \o b) = Len(a) + Len(b)
      /\ \A j \in 1..Len(a) + Len(b) : (a \o b)[j] = IF j <= Len(a) THEN a[j] ELSE b[j - Len(a)]
  BY <1>1, <1>2, ConcatProperties
<1>4. RemoveAt(s, i) = a \o b
  BY DEF RemoveAt, a, b
<1>5. Len(a) + Len(b) = Len(s) - 1
  BY <1>0, <1>1, <1>2
<1>6. ASSUME NEW j \in 1..Len(s) - 1 PROVE (a \o b)[j] = IF j < i THEN s[j] ELSE s[j + 1]
  <2>1. CASE j < i
    BY <1>0, <1>1, <1>3, <1>5, <2>1
  <2>2. CASE ~(j < i)
    <3>1. j - Len(a) \in 1..Len(s) - i /\ i + (j - Len(a)) = j + 1
      BY <1>0, <1>1, <2>2
    <3>2. (a \o b)[j] = b[j - Len(a)]
      BY <1>0, <1>1, <1>3, <1>5, <2>2
    <3>3. b[j - Len(a)] = s[i + (j - Len(a))]
      BY <1>2, <3>1
    <3> QED
      BY <2>2, <3>1, <3>2, <3>3
  <2> QED
    BY <2>1, <2>2
<1> QED
  BY <1>3, <1>4, <1>5, <1>6

(* The registry. What is registered has been through the handshake, stands *)
(* once in the list and keeps its tools; a call that was sent went to such *)
(* a server.                                                               *)
ConnRecs == [name : ServerNames, path : {"config", "loop"}, stage : Stages,
             tools : SUBSET AllToolNames, heard : {SubSeq(Handshake, 1, n) : n \in 0..4}]
CallRecs == [tool : AllToolNames \cup {"none"}, conn : Nat, state : {"idle", "sent", "done", "failed", "unknown"}]
RegistryTypes ==
  /\ conns \in Seq(ConnRecs) /\ servers \in Seq(Nat) /\ toolCall \in [ToolCalls -> CallRecs]
  /\ alive \subseteq DOMAIN conns /\ closing \in {0} \cup DOMAIN conns /\ menu \subseteq AllToolNames
  /\ \A k \in ToolCalls : toolCall[k].conn \in {0} \cup DOMAIN conns
ServersInv ==
  /\ \A i \in DOMAIN servers : servers[i] \in DOMAIN conns /\ conns[servers[i]].stage = "registered"
  /\ \A i, j \in DOMAIN servers : servers[i] = servers[j] => i = j
HeardInv == \A c \in DOMAIN conns :
  conns[c].stage \in {"list_resources", "register", "registered"} => Len(conns[c].heard) >= 3
CallsInv == \A k \in ToolCalls : toolCall[k].state \in {"sent", "done"} =>
  /\ toolCall[k].conn \in DOMAIN conns /\ conns[toolCall[k].conn].stage = "registered"
  /\ toolCall[k].tool \in conns[toolCall[k].conn].tools
KnownInv == \A c \in alive :
  \/ \E i \in DOMAIN servers : servers[i] = c
  \/ conns[c].stage \notin {"registered", "failed"}
  \/ conns[c].stage = "failed" /\ conns[c].path = "loop"
RegistryInv == RegistryTypes /\ ServersInv /\ HeardInv /\ CallsInv /\ KnownInv

LEMMA HeardLengths ==
  /\ Len(SubSeq(Handshake, 1, 2)) = 2 /\ Len(SubSeq(Handshake, 1, 3)) = 3 /\ Handshake = SubSeq(Handshake, 1, 4)
  /\ Len(Handshake) = 4 /\ <<>> = SubSeq(Handshake, 1, 0)
BY DEF Handshake

LEMMA RegistryInitInv == RegistryInit => RegistryInv
<1> SUFFICES ASSUME RegistryInit PROVE RegistryInv
  OBVIOUS
<1>1. conns = <<>> /\ servers = <<>> /\ alive = {} /\ closing = 0 /\ menu = {}
      /\ toolCall = [k \in ToolCalls |-> NotCalled]
  BY DEF RegistryInit
<1>2. conns \in Seq(ConnRecs) /\ servers \in Seq(Nat) /\ DOMAIN conns = {} /\ DOMAIN servers = {}
  BY <1>1
<1>3. NotCalled \in CallRecs /\ NotCalled.conn = 0 /\ NotCalled.state = "idle"
  BY DEF NotCalled, CallRecs
<1>4. RegistryTypes
  BY <1>1, <1>2, <1>3 DEF RegistryTypes
<1>5. ServersInv /\ HeardInv /\ KnownInv
  BY <1>1, <1>2 DEF ServersInv, HeardInv, KnownInv
<1>6. CallsInv
  BY <1>1, <1>3 DEF CallsInv
<1> QED
  BY <1>4, <1>5, <1>6 DEF RegistryInv

(* A connection goes on in its handshake; none that is registered does.    *)
LEMMA AdvanceStep ==
  ASSUME RegistryInv, NEW c \in DOMAIN conns, NEW stage \in Stages, NEW tools \in SUBSET AllToolNames,
         NEW n \in 0..4, conns[c].stage # "registered", stage # "registered",
         Advance(c, stage, tools, SubSeq(Handshake, 1, n)) \/ Advance(c, stage, tools, conns[c].heard),
         stage \in {"list_resources", "register"} => Len(conns'[c].heard) >= 3,
         UNCHANGED <<servers, closing, menu, toolCall>>,
         alive' = alive \/ alive' = alive \ {c},
         stage = "failed" /\ conns[c].path # "loop" => c \notin alive'
  PROVE  RegistryInv'
<1>0. conns \in Seq(ConnRecs) /\ conns[c] \in ConnRecs /\ DOMAIN conns = 1..Len(conns)
  BY DEF RegistryInv, RegistryTypes
<1>1. PICK h \in {SubSeq(Handshake, 1, m) : m \in 0..4} : conns' = [conns EXCEPT ![c].stage = stage, ![c].tools = tools, ![c].heard = h]
  BY <1>0 DEF Advance, ConnRecs
<1>2. PICK rec : rec = [conns[c] EXCEPT !.stage = stage, !.tools = tools, !.heard = h]
  OBVIOUS
<1>3. rec \in ConnRecs /\ rec.stage = stage /\ rec.name = conns[c].name /\ rec.path = conns[c].path
  BY <1>0, <1>2 DEF ConnRecs
<1>4. conns' = [conns EXCEPT ![c] = rec]
  BY <1>0, <1>1, <1>2
<1>5. conns' \in Seq(ConnRecs) /\ DOMAIN conns' = DOMAIN conns /\ conns'[c] = rec
      /\ \A d \in DOMAIN conns \ {c} : conns'[d] = conns[d]
  BY <1>0, <1>3, <1>4
<1>6. RegistryTypes'
  BY <1>5 DEF RegistryInv, RegistryTypes
<1>7. ServersInv'
  BY <1>5 DEF RegistryInv, ServersInv
<1>8. HeardInv'
  BY <1>3, <1>5 DEF RegistryInv, HeardInv
<1>9. CallsInv'
  BY <1>5 DEF RegistryInv, CallsInv
<1>10. KnownInv'
  BY <1>3, <1>5 DEF RegistryInv, KnownInv, RegistryTypes
<1> QED
  BY <1>6, <1>7, <1>8, <1>9, <1>10 DEF RegistryInv

LEMMA AddServerStep == ASSUME RegistryInv, NEW c \in DOMAIN conns, AddServer(c) PROVE RegistryInv'
<1>0. conns \in Seq(ConnRecs) /\ conns[c] \in ConnRecs /\ DOMAIN conns = 1..Len(conns) /\ c \in Nat
      /\ servers \in Seq(Nat) /\ DOMAIN servers = 1..Len(servers) /\ Len(servers) \in Nat
  BY DEF RegistryInv, RegistryTypes
<1>1. conns[c].stage = "register" /\ UNCHANGED <<alive, closing, menu, toolCall>> /\ servers' = Append(servers, c)
      /\ conns' = [conns EXCEPT ![c].stage = "registered", ![c].tools = conns[c].tools, ![c].heard = conns[c].heard]
  BY DEF AddServer, Advance
<1>2. PICK rec : rec = [conns[c] EXCEPT !.stage = "registered", !.tools = conns[c].tools, !.heard = conns[c].heard]
  OBVIOUS
<1>3. rec \in ConnRecs /\ rec.stage = "registered" /\ rec.tools = conns[c].tools /\ rec.heard = conns[c].heard
  BY <1>0, <1>2 DEF ConnRecs, Stages
<1>4. conns' = [conns EXCEPT ![c] = rec]
  BY <1>0, <1>1, <1>2
<1>5. conns' \in Seq(ConnRecs) /\ DOMAIN conns' = DOMAIN conns /\ conns'[c] = rec
      /\ \A d \in DOMAIN conns \ {c} : conns'[d] = conns[d]
  BY <1>0, <1>3, <1>4
<1>6. /\ servers' \in Seq(Nat) /\ DOMAIN servers' = 1..(Len(servers) + 1) /\ servers'[Len(servers) + 1] = c
      /\ \A i \in DOMAIN servers : servers'[i] = servers[i]
  BY <1>0, <1>1, AppendProperties
<1>7. \A i \in DOMAIN servers : servers[i] \in DOMAIN conns \ {c} /\ conns[servers[i]].stage = "registered"
  BY <1>1 DEF RegistryInv, ServersInv
<1>8. RegistryTypes'
  BY <1>1, <1>5, <1>6 DEF RegistryInv, RegistryTypes
<1>9. ServersInv'
  <2>1. ASSUME NEW i \in DOMAIN servers' PROVE servers'[i] \in DOMAIN conns' /\ conns'[servers'[i]].stage = "registered"
    <3>1. i \in DOMAIN servers \/ i = Len(servers) + 1
      BY <1>0, <1>6
    <3>2. CASE i \in DOMAIN servers
      BY <1>5, <1>6, <1>7, <3>2
    <3>3. CASE i = Len(servers) + 1
      BY <1>3, <1>5, <1>6, <3>3
    <3> QED
      BY <3>1, <3>2, <3>3
  <2>2. ASSUME NEW i \in DOMAIN servers', NEW j \in DOMAIN servers', servers'[i] = servers'[j] PROVE i = j
    <3>1. \A m \in DOMAIN servers' : m \in DOMAIN servers \/ m = Len(servers) + 1
      BY <1>0, <1>6
    <3>2. CASE i \in DOMAIN servers /\ j \in DOMAIN servers
      BY <1>6, <2>2, <3>2 DEF RegistryInv, ServersInv
    <3>3. ~(i \in DOMAIN servers /\ j = Len(servers) + 1) /\ ~(j \in DOMAIN servers /\ i = Len(servers) + 1)
      BY <1>6, <1>7, <2>2
    <3> QED
      BY <3>1, <3>2, <3>3
  <2> QED
    BY <2>1, <2>2 DEF ServersInv
<1>10. HeardInv'
  BY <1>1, <1>3, <1>5 DEF RegistryInv, HeardInv
<1>11. CallsInv'
  BY <1>1, <1>5 DEF RegistryInv, CallsInv
<1>12. KnownInv'
  <2> SUFFICES ASSUME NEW d \in alive, ~ \E i \in DOMAIN servers' : servers'[i] = d
               PROVE  \/ conns'[d].stage \notin {"registered", "failed"}
                      \/ conns'[d].stage = "failed" /\ conns'[d].path = "loop"
    BY <1>1 DEF KnownInv
  <2>1. d # c /\ d \in DOMAIN conns /\ ~ \E i \in DOMAIN servers : servers[i] = d
    BY <1>0, <1>6 DEF RegistryInv, RegistryTypes
  <2> QED
    BY <1>5, <2>1 DEF RegistryInv, KnownInv
<1> QED
  BY <1>8, <1>9, <1>10, <1>11, <1>12 DEF RegistryInv

(* The tool that is found is one of the server that is found.              *)
LEMMA FoundIs ==
  ASSUME RegistryInv, NEW t, Offering(t) # {}
  PROVE  \E m \in Offering(t) : FindTool(t) = servers[m] /\ \A j \in Offering(t) : m <= j
<1>1. Offering(t) \in SUBSET Nat
  BY DEF RegistryInv, RegistryTypes, Offering
<1>2. \E m \in Offering(t) : \A j \in Offering(t) : m <= j
  BY <1>1, Smallest
<1> QED
  BY <1>2 DEF FindTool

LEMMA CallToolStep ==
  ASSUME RegistryInv, NEW k \in ToolCalls, NEW t \in AllToolNames, CallTool(k, t) PROVE RegistryInv'
<1>0. toolCall \in [ToolCalls -> CallRecs] /\ conns \in Seq(ConnRecs) /\ servers \in Seq(Nat)
  BY DEF RegistryInv, RegistryTypes
<1>1. PICK rec : rec = [tool |-> t, conn |-> FindTool(t), state |-> IF FindTool(t) = 0 THEN "unknown" ELSE "sent"]
  OBVIOUS
<1>2. toolCall' = [toolCall EXCEPT ![k] = rec] /\ UNCHANGED <<conns, servers, alive, closing, menu>>
  BY <1>1 DEF CallTool
<1>3. \/ FindTool(t) = 0
      \/ FindTool(t) \in DOMAIN conns /\ conns[FindTool(t)].stage = "registered" /\ t \in conns[FindTool(t)].tools
  <2>1. CASE Offering(t) = {}
    BY <2>1 DEF FindTool
  <2>2. CASE Offering(t) # {}
    BY <2>2, FoundIs DEF Offering, RegistryInv, ServersInv
  <2> QED
    BY <2>1, <2>2
<1>4. rec \in CallRecs /\ rec.conn \in {0} \cup DOMAIN conns
  BY <1>0, <1>1, <1>3 DEF CallRecs
<1>5. toolCall' \in [ToolCalls -> CallRecs] /\ toolCall'[k] = rec /\ \A q \in ToolCalls \ {k} : toolCall'[q] = toolCall[q]
  BY <1>0, <1>2, <1>4
<1>6. RegistryTypes'
  BY <1>2, <1>4, <1>5 DEF RegistryInv, RegistryTypes
<1>7. ServersInv' /\ HeardInv' /\ KnownInv'
  BY <1>2 DEF RegistryInv, ServersInv, HeardInv, KnownInv
<1>8. CallsInv'
  BY <1>1, <1>2, <1>3, <1>5 DEF RegistryInv, CallsInv
<1> QED
  BY <1>6, <1>7, <1>8 DEF RegistryInv

LEMMA CloseStep == ASSUME RegistryInv, CloseReturns PROVE RegistryInv'
<1>0. conns \in Seq(ConnRecs) /\ servers \in Seq(Nat) /\ DOMAIN servers = 1..Len(servers) /\ Len(servers) \in Nat
  BY DEF RegistryInv, RegistryTypes
<1>1. closing # 0 /\ closing' = 0 /\ alive' = alive \ {closing} /\ UNCHANGED <<conns, menu, toolCall>>
  BY DEF CloseReturns
<1>2. CASE UNCHANGED servers
  <2>1. RegistryTypes'
    BY <1>1, <1>2 DEF RegistryInv, RegistryTypes
  <2>2. ServersInv' /\ HeardInv' /\ CallsInv' /\ KnownInv'
    BY <1>1, <1>2 DEF RegistryInv, ServersInv, HeardInv, CallsInv, KnownInv
  <2> QED
    BY <2>1, <2>2 DEF RegistryInv
<1>3. CASE \E i \in DOMAIN servers : servers[i] = closing /\ servers' = RemoveAt(servers, i)
  <2>1. PICK i \in DOMAIN servers : servers[i] = closing /\ servers' = RemoveAt(servers, i)
    BY <1>3
  <2>2. /\ servers' \in Seq(Nat) /\ Len(servers') = Len(servers) - 1
        /\ \A j \in 1..Len(servers) - 1 : servers'[j] = IF j < i THEN servers[j] ELSE servers[j + 1]
    <3>1. servers \in Seq(Nat) /\ i \in 1..Len(servers)
      BY <1>0
    <3>2. /\ RemoveAt(servers, i) \in Seq(Nat) /\ Len(RemoveAt(servers, i)) = Len(servers) - 1
          /\ \A j \in 1..Len(servers) - 1 : RemoveAt(servers, i)[j] = IF j < i THEN servers[j] ELSE servers[j + 1]
      BY <3>1, RemoveAtProperties
    <3> QED
      BY <2>1, <3>2
  <2>3. DOMAIN servers' = 1..(Len(servers) - 1)
    BY <1>0, <2>2
  <2>4. RegistryTypes'
    BY <1>1, <2>2 DEF RegistryInv, RegistryTypes
  <2>5. ServersInv'
    <3>1. \A j \in DOMAIN servers' : /\ servers'[j] = servers[IF j < i THEN j ELSE j + 1]
                                     /\ (IF j < i THEN j ELSE j + 1) \in DOMAIN servers
      <4> SUFFICES ASSUME NEW j \in DOMAIN servers'
                   PROVE  /\ servers'[j] = servers[IF j < i THEN j ELSE j + 1]
                          /\ (IF j < i THEN j ELSE j + 1) \in DOMAIN servers
        OBVIOUS
      <4>1. /\ j \in 1..Len(servers) - 1 /\ j \in Nat /\ i \in Nat
            /\ DOMAIN servers = 1..Len(servers) /\ Len(servers) \in Nat
        BY <1>0, <2>3
      <4>2. servers'[j] = IF j < i THEN servers[j] ELSE servers[j + 1]
        BY <2>2, <4>1
      <4>3. j \in DOMAIN servers /\ j + 1 \in DOMAIN servers
        BY <4>1
      <4> QED
        BY <4>2, <4>3
    <3>2. ASSUME NEW j \in DOMAIN servers' PROVE servers'[j] \in DOMAIN conns' /\ conns'[servers'[j]].stage = "registered"
      BY <1>1, <3>1 DEF RegistryInv, ServersInv
    <3>3. ASSUME NEW j \in DOMAIN servers', NEW m \in DOMAIN servers', servers'[j] = servers'[m] PROVE j = m
      <4>1. (IF j < i THEN j ELSE j + 1) = (IF m < i THEN m ELSE m + 1)
        BY <3>1, <3>3 DEF RegistryInv, ServersInv
      <4>2. j \in Nat /\ m \in Nat /\ i \in Nat
        BY <1>0, <2>3
      <4> QED
        BY <4>1, <4>2
    <3> QED
      BY <3>2, <3>3 DEF ServersInv
  <2>6. HeardInv' /\ CallsInv'
    BY <1>1 DEF RegistryInv, HeardInv, CallsInv
  <2>7. KnownInv'
    <3> SUFFICES ASSUME NEW d \in alive \ {closing}, NEW j \in DOMAIN servers, servers[j] = d
                 PROVE  \E m \in DOMAIN servers' : servers'[m] = d
      BY <1>1 DEF RegistryInv, KnownInv
    <3>1. CASE j < i
      <4>1. j \in 1..Len(servers) - 1 /\ j \in DOMAIN servers'
        BY <1>0, <2>1, <2>3, <3>1
      <4> QED
        BY <2>2, <3>1, <4>1
    <3>2. CASE j > i
      <4>1. j - 1 \in DOMAIN servers' /\ ~(j - 1 < i) /\ (j - 1) + 1 = j
        BY <1>0, <2>3, <3>2
      <4>2. servers'[j - 1] = d
        BY <2>2, <2>3, <4>1
      <4> QED
        BY <4>1, <4>2
    <3>3. j # i
      BY <2>1
    <3> QED
      BY <1>0, <3>1, <3>2, <3>3
  <2> QED
    BY <2>4, <2>5, <2>6, <2>7 DEF RegistryInv
<1> QED
  BY <1>2, <1>3 DEF CloseReturns

LEMMA RegistryNextInv == ASSUME RegistryInv, RegistryNext PROVE RegistryInv'
<1>0. conns \in Seq(ConnRecs) /\ (\A c \in DOMAIN conns : conns[c] \in ConnRecs) /\ DOMAIN conns = 1..Len(conns)
      /\ servers \in Seq(Nat) /\ toolCall \in [ToolCalls -> CallRecs] /\ Len(conns) \in Nat
  BY DEF RegistryInv, RegistryTypes
<1>1. ASSUME NEW name \in ServerNames, Disconnect(name) PROVE RegistryInv'
  <2>1. UNCHANGED <<conns, servers, alive, menu, toolCall>> /\ closing' \in DOMAIN conns
    BY <1>1 DEF Disconnect, RegistryInv, ServersInv
  <2>2. RegistryTypes'
    BY <2>1 DEF RegistryInv, RegistryTypes
  <2>3. ServersInv' /\ HeardInv' /\ CallsInv' /\ KnownInv'
    BY <2>1 DEF RegistryInv, ServersInv, HeardInv, CallsInv, KnownInv
  <2> QED
    BY <2>2, <2>3 DEF RegistryInv
<1>2. ASSUME NEW name \in ServerNames, NEW path \in {"config", "loop"}, Connect(name, path) PROVE RegistryInv'
  <2>1. PICK rec : rec = [name |-> name, path |-> path, stage |-> "initialize", tools |-> {}, heard |-> <<>>]
    OBVIOUS
  <2>2. rec \in ConnRecs /\ rec.stage = "initialize"
    BY <2>1, HeardLengths DEF ConnRecs, Stages
  <2>3. conns' = Append(conns, rec) /\ alive' = alive \cup {Len(conns')} /\ UNCHANGED <<servers, closing, menu, toolCall>>
    BY <1>2, <2>1 DEF Connect
  <2>4. /\ conns' \in Seq(ConnRecs) /\ Len(conns') = Len(conns) + 1 /\ conns'[Len(conns) + 1] = rec
        /\ \A c \in DOMAIN conns : conns'[c] = conns[c]
    BY <1>0, <2>2, <2>3, AppendProperties
  <2>5. DOMAIN conns' = DOMAIN conns \cup {Len(conns) + 1} /\ Len(conns) + 1 \notin DOMAIN conns
    BY <1>0, <2>4
  <2>6. RegistryTypes'
    BY <2>3, <2>4, <2>5 DEF RegistryInv, RegistryTypes
  <2>7. ServersInv'
    BY <2>3, <2>4, <2>5 DEF RegistryInv, ServersInv
  <2>8. HeardInv'
    BY <2>2, <2>4, <2>5 DEF RegistryInv, HeardInv
  <2>9. CallsInv'
    BY <2>3, <2>4, <2>5 DEF RegistryInv, CallsInv
  <2>10. KnownInv'
    BY <2>2, <2>3, <2>4, <2>5 DEF RegistryInv, RegistryTypes, KnownInv
  <2> QED
    BY <2>6, <2>7, <2>8, <2>9, <2>10 DEF RegistryInv
<1>3. ASSUME NEW c \in DOMAIN conns, Initialize(c) PROVE RegistryInv'
  BY <1>3, AdvanceStep, 2 \in 0..4, "list_tools" \in Stages DEF Initialize, Stages
<1>4. ASSUME NEW c \in DOMAIN conns, ListTools(c) PROVE RegistryInv'
  <2>1. conns[c].stage = "list_tools" /\ UNCHANGED <<servers, alive, closing, menu, toolCall>>
        /\ Advance(c, "list_resources", Offers[conns[c].name], SubSeq(Handshake, 1, 3))
    BY <1>4 DEF ListTools
  <2>2. Offers[conns[c].name] \in SUBSET AllToolNames
    BY <1>0 DEF ConnRecs, AllToolNames
  <2>3. conns'[c].heard = SubSeq(Handshake, 1, 3)
    <3>1. conns[c] \in ConnRecs
      BY <1>0
    <3> QED
      BY <1>0, <2>1, <3>1 DEF Advance, ConnRecs
  <2>4. Len(conns'[c].heard) >= 3
    BY <2>3, HeardLengths
  <2> QED
    BY <2>1, <2>2, <2>4, AdvanceStep, 3 \in 0..4, "list_resources" \in Stages DEF Stages
<1>5. ASSUME NEW c \in DOMAIN conns, ListResources(c) PROVE RegistryInv'
  <2>1. conns[c].stage = "list_resources" /\ UNCHANGED <<servers, alive, closing, menu, toolCall>>
        /\ (Advance(c, "register", conns[c].tools, SubSeq(Handshake, 1, 4)) \/ Advance(c, "register", conns[c].tools, conns[c].heard))
    BY <1>5, HeardLengths DEF ListResources
  <2>2. conns[c].tools \in SUBSET AllToolNames
    BY <1>0 DEF ConnRecs
  <2>3. conns'[c].heard = SubSeq(Handshake, 1, 4) \/ conns'[c].heard = conns[c].heard
    <3>1. conns[c] \in ConnRecs
      BY <1>0
    <3> QED
      BY <1>0, <2>1, <3>1 DEF Advance, ConnRecs
  <2>4. Len(conns'[c].heard) >= 3
    BY <2>1, <2>3, HeardLengths DEF RegistryInv, HeardInv
  <2> QED
    BY <2>1, <2>2, <2>4, AdvanceStep, 4 \in 0..4, "register" \in Stages DEF Stages
<1>6. ASSUME NEW c \in DOMAIN conns, ConnectFails(c) PROVE RegistryInv'
  <2>1. conns[c].stage \in {"initialize", "list_tools"} /\ UNCHANGED <<servers, closing, menu, toolCall>>
        /\ Advance(c, "failed", {}, conns[c].heard)
        /\ alive' = IF conns[c].path = "config" THEN alive \ {c} ELSE alive
    BY <1>6 DEF ConnectFails
  <2>2. conns[c].path \in {"config", "loop"}
    BY <1>0 DEF ConnRecs
  <2>3. conns[c].path # "loop" => c \notin alive'
    BY <2>1, <2>2
  <2> QED
    BY <2>1, <2>3, AdvanceStep, 0 \in 0..4, "failed" \in Stages DEF Stages
<1>7. ASSUME NEW c \in DOMAIN conns, ServerEnds(c) PROVE RegistryInv'
  <2>1. alive' = alive \ {c} /\ UNCHANGED <<conns, servers, closing, menu, toolCall>>
    BY <1>7 DEF ServerEnds
  <2>2. RegistryTypes'
    BY <2>1 DEF RegistryInv, RegistryTypes
  <2>3. ServersInv' /\ HeardInv' /\ CallsInv' /\ KnownInv'
    BY <2>1 DEF RegistryInv, ServersInv, HeardInv, CallsInv, KnownInv
  <2> QED
    BY <2>2, <2>3 DEF RegistryInv
<1>8. ASSUME OfferTools PROVE RegistryInv'
  <2>1. UNCHANGED <<conns, servers, alive, closing, toolCall>> /\ menu' = UNION {conns[servers[i]].tools : i \in DOMAIN servers}
    BY <1>8 DEF OfferTools
  <2>2. menu' \subseteq AllToolNames
    <3>1. \A i \in DOMAIN servers : conns[servers[i]].tools \subseteq AllToolNames
      BY <1>0 DEF RegistryInv, ServersInv, ConnRecs
    <3> QED
      BY <2>1, <3>1
  <2>3. RegistryTypes'
    BY <2>1, <2>2 DEF RegistryInv, RegistryTypes
  <2>4. ServersInv' /\ HeardInv' /\ CallsInv' /\ KnownInv'
    BY <2>1 DEF RegistryInv, ServersInv, HeardInv, CallsInv, KnownInv
  <2> QED
    BY <2>3, <2>4 DEF RegistryInv
<1>9. ASSUME NEW k \in ToolCalls, CallReturns(k) PROVE RegistryInv'
  <2>1. PICK state \in {"done", "failed"} : toolCall' = [toolCall EXCEPT ![k].state = state]
    BY <1>9 DEF CallReturns
  <2>2. PICK rec : rec = [toolCall[k] EXCEPT !.state = state]
    OBVIOUS
  <2>3. rec \in CallRecs /\ rec.conn = toolCall[k].conn /\ rec.tool = toolCall[k].tool
    BY <1>0, <2>2 DEF CallRecs
  <2>4. toolCall' \in [ToolCalls -> CallRecs] /\ toolCall'[k] = rec /\ \A q \in ToolCalls \ {k} : toolCall'[q] = toolCall[q]
    BY <1>0, <2>1, <2>2, <2>3
  <2>5. UNCHANGED <<conns, servers, alive, closing, menu>> /\ toolCall[k].state = "sent"
    BY <1>9 DEF CallReturns
  <2>6. RegistryTypes'
    BY <2>3, <2>4, <2>5 DEF RegistryInv, RegistryTypes
  <2>7. ServersInv' /\ HeardInv' /\ KnownInv'
    BY <2>5 DEF RegistryInv, ServersInv, HeardInv, KnownInv
  <2>8. CallsInv'
    BY <2>3, <2>4, <2>5 DEF RegistryInv, CallsInv
  <2> QED
    BY <2>6, <2>7, <2>8 DEF RegistryInv
<1> QED
  BY <1>1, <1>2, <1>3, <1>4, <1>5, <1>6, <1>7, <1>8, <1>9, AddServerStep, CallToolStep, CloseStep DEF RegistryNext

LEMMA RegistryKeeps == RegistryInv => RegistryTypeOK /\ CalledAfterHandshake /\ ProcessesAreKnown
<1> SUFFICES ASSUME RegistryInv PROVE RegistryTypeOK /\ CalledAfterHandshake /\ ProcessesAreKnown
  OBVIOUS
<1>1. RegistryTypeOK
  <2>1. \A c \in DOMAIN conns : conns[c] \in ConnRecs
    BY DEF RegistryInv, RegistryTypes
  <2>2. toolCall \in [ToolCalls -> [tool : AllToolNames \cup {"none"}, conn : {0} \cup DOMAIN conns,
                                    state : {"idle", "sent", "done", "failed", "unknown"}]]
    BY DEF RegistryInv, RegistryTypes, CallRecs
  <2> QED
    BY <2>1, <2>2 DEF RegistryInv, RegistryTypes, ServersInv, ConnRecs, RegistryTypeOK
<1>2. CalledAfterHandshake
  BY DEF RegistryInv, CallsInv, HeardInv, CalledAfterHandshake
<1>3. ProcessesAreKnown
  <2>1. ASSUME NEW i \in DOMAIN servers PROVE servers[i] \in ToSet(servers)
    BY Zenon DEF ToSet
  <2> QED
    BY <2>1 DEF RegistryInv, KnownInv, ServersInv, ProcessesAreKnown
<1> QED
  BY <1>1, <1>2, <1>3

LEMMA LeastIs ==
  ASSUME NEW S \in SUBSET Nat, NEW m \in S, \A j \in S : m <= j
  PROVE  (CHOOSE i \in S : \A j \in S : i <= j) = m
<1>1. \A i \in S : (\A j \in S : i <= j) => i = m
  BY SMT
<1> QED
  BY <1>1

(* A step leaves the tools of what is registered, and the list as it is,   *)
(* longer by one, or without one.                                          *)
LEMMA RegistryMoves ==
  ASSUME RegistryInv, RegistryNext
  PROVE  /\ \A c \in DOMAIN conns : conns[c].stage = "registered" => conns'[c].tools = conns[c].tools
         /\ \/ UNCHANGED servers
            \/ \E c \in Nat : servers' = Append(servers, c)
            \/ \E i \in DOMAIN servers : servers[i] = closing /\ servers' = RemoveAt(servers, i)
<1>0. conns \in Seq(ConnRecs) /\ (\A c \in DOMAIN conns : conns[c] \in ConnRecs) /\ DOMAIN conns = 1..Len(conns)
      /\ Len(conns) \in Nat
  BY DEF RegistryInv, RegistryTypes
<1>1. ASSUME UNCHANGED conns PROVE \A c \in DOMAIN conns : conns[c].stage = "registered" => conns'[c].tools = conns[c].tools
  BY <1>1
<1>2. ASSUME NEW c \in DOMAIN conns, NEW stage, NEW tools, NEW heard, Advance(c, stage, tools, heard), conns[c].stage # "registered"
      PROVE  \A d \in DOMAIN conns : conns[d].stage = "registered" => conns'[d].tools = conns[d].tools
  BY <1>0, <1>2 DEF Advance
<1>3. ASSUME NEW name \in ServerNames, NEW path \in {"config", "loop"}, Connect(name, path)
      PROVE  UNCHANGED servers /\ \A c \in DOMAIN conns : conns'[c] = conns[c]
  <2>1. PICK rec : rec = [name |-> name, path |-> path, stage |-> "initialize", tools |-> {}, heard |-> <<>>]
    OBVIOUS
  <2>2. rec \in ConnRecs
    BY <2>1, HeardLengths DEF ConnRecs, Stages
  <2>3. conns' = Append(conns, rec) /\ UNCHANGED servers
    BY <1>3, <2>1 DEF Connect
  <2> QED
    BY <1>0, <2>2, <2>3, AppendProperties
<1>4. ASSUME NEW c \in DOMAIN conns, Initialize(c) \/ ListTools(c) \/ ListResources(c) \/ ConnectFails(c) \/ AddServer(c)
      PROVE  /\ conns[c].stage # "registered" /\ (UNCHANGED servers \/ servers' = Append(servers, c))
             /\ \E stage, tools, heard : Advance(c, stage, tools, heard)
  BY <1>4 DEF Initialize, ListTools, ListResources, ConnectFails, AddServer
<1>5. ASSUME NEW c \in DOMAIN conns, ServerEnds(c) PROVE UNCHANGED <<conns, servers>>
  BY <1>5 DEF ServerEnds
<1>6. ASSUME NEW name \in ServerNames, Disconnect(name) PROVE UNCHANGED <<conns, servers>>
  BY <1>6 DEF Disconnect
<1>7. ASSUME NEW k \in ToolCalls, CallReturns(k) \/ \E t \in AllToolNames : CallTool(k, t) PROVE UNCHANGED <<conns, servers>>
  BY <1>7 DEF CallReturns, CallTool
<1>8. ASSUME OfferTools PROVE UNCHANGED <<conns, servers>>
  BY <1>8 DEF OfferTools
<1>9. ASSUME CloseReturns
      PROVE  /\ UNCHANGED conns
             /\ UNCHANGED servers \/ \E i \in DOMAIN servers : servers[i] = closing /\ servers' = RemoveAt(servers, i)
  BY <1>9 DEF CloseReturns
<1>10. DOMAIN conns \subseteq Nat
  BY <1>0
<1> QED
  BY <1>1, <1>2, <1>3, <1>4, <1>5, <1>6, <1>7, <1>8, <1>9, <1>10 DEF RegistryNext

ToolsKeepStep == \A t \in AllToolNames : FindTool(t) \in ToSet(servers') => FindTool(t)' = FindTool(t)

LEMMA ToolsKeepHolds == ASSUME RegistryInv, RegistryNext PROVE ToolsKeepStep
<1> SUFFICES ASSUME NEW t \in AllToolNames, FindTool(t) \in ToSet(servers') PROVE FindTool(t)' = FindTool(t)
  BY DEF ToolsKeepStep
<1>0. RegistryInv'
  BY RegistryNextInv
<1>1. /\ servers \in Seq(Nat) /\ DOMAIN servers = 1..Len(servers) /\ Len(servers) \in Nat
      /\ servers' \in Seq(Nat) /\ DOMAIN servers' = 1..Len(servers')
  BY <1>0 DEF RegistryInv, RegistryTypes
<1>2. Offering(t) # {}
  <2>1. 0 \notin ToSet(servers')
    BY <1>0 DEF RegistryInv, RegistryTypes, ServersInv, ToSet
  <2> QED
    BY <2>1 DEF FindTool
<1>3. PICK m \in Offering(t) : FindTool(t) = servers[m] /\ \A j \in Offering(t) : m <= j
  BY <1>2, FoundIs
<1>4. m \in DOMAIN servers /\ t \in conns[servers[m]].tools
  BY <1>3 DEF Offering
<1>5. \A j \in DOMAIN servers : conns'[servers[j]].tools = conns[servers[j]].tools
  BY RegistryMoves DEF RegistryInv, ServersInv
<1>6. Offering(t)' \in SUBSET Nat
  BY <1>1 DEF Offering
<1>7. ASSUME NEW n \in Offering(t)', servers'[n] = servers[m], \A j \in Offering(t)' : n <= j
      PROVE  FindTool(t)' = FindTool(t)
  <2>1. (CHOOSE i \in Offering(t)' : \A j \in Offering(t)' : i <= j) = n
    BY <1>6, <1>7, LeastIs
  <2>2. FindTool(t)' = servers'[n]
    BY <2>1 DEF FindTool
  <2> QED
    BY <1>3, <1>7, <2>2
<1>8. CASE UNCHANGED servers \/ \E c \in Nat : servers' = Append(servers, c)
  <2>1. /\ DOMAIN servers \subseteq DOMAIN servers' /\ \A j \in DOMAIN servers : servers'[j] = servers[j]
        /\ \A j \in DOMAIN servers' : j \in DOMAIN servers \/ j > Len(servers)
    <3>1. CASE UNCHANGED servers
      BY <3>1
    <3>2. ASSUME NEW c \in Nat, servers' = Append(servers, c)
          PROVE  /\ DOMAIN servers \subseteq DOMAIN servers' /\ \A j \in DOMAIN servers : servers'[j] = servers[j]
                 /\ \A j \in DOMAIN servers' : j \in DOMAIN servers \/ j > Len(servers)
      <4>1. Len(servers') = Len(servers) + 1 /\ \A j \in 1..Len(servers) : servers'[j] = servers[j]
        BY <1>1, <3>2, AppendProperties
      <4> QED
        BY <1>1, <4>1
    <3> QED
      BY <1>8, <3>1, <3>2
  <2>2. m \in Offering(t)' /\ servers'[m] = servers[m]
    BY <1>4, <1>5, <2>1 DEF Offering
  <2>3. ASSUME NEW j \in Offering(t)' PROVE m <= j
    <3>1. j \in DOMAIN servers' /\ t \in conns'[servers'[j]].tools
      BY DEF Offering
    <3>2. CASE j \in DOMAIN servers
      <4>1. j \in Offering(t)
        BY <1>5, <2>1, <3>1, <3>2 DEF Offering
      <4> QED
        BY <1>3, <4>1
    <3>3. CASE j > Len(servers)
      BY <1>1, <1>4, <3>1, <3>3
    <3> QED
      BY <2>1, <3>1, <3>2, <3>3
  <2> QED
    BY <1>7, <2>2, <2>3
<1>9. CASE \E i \in DOMAIN servers : servers[i] = closing /\ servers' = RemoveAt(servers, i)
  <2>1. PICK i \in DOMAIN servers : servers' = RemoveAt(servers, i)
    BY <1>9
  <2> DEFINE less == RemoveAt(servers, i)
  <2>a. i \in 1..Len(servers) /\ servers \in Seq(Nat) /\ servers' = less
    BY <1>1, <2>1
  <2>b. /\ Len(less) = Len(servers) - 1
        /\ \A j \in 1..Len(servers) - 1 : less[j] = IF j < i THEN servers[j] ELSE servers[j + 1]
    BY <2>a, RemoveAtProperties
  <2> HIDE DEF less
  <2>2. /\ Len(servers') = Len(servers) - 1
        /\ \A j \in 1..Len(servers) - 1 : servers'[j] = IF j < i THEN servers[j] ELSE servers[j + 1]
    BY <2>a, <2>b
  <2>3. \A j \in DOMAIN servers' : /\ servers'[j] = servers[IF j < i THEN j ELSE j + 1]
                                   /\ (IF j < i THEN j ELSE j + 1) \in DOMAIN servers \ {i}
    <3> SUFFICES ASSUME NEW j \in DOMAIN servers'
                 PROVE  /\ servers'[j] = servers[IF j < i THEN j ELSE j + 1]
                        /\ (IF j < i THEN j ELSE j + 1) \in DOMAIN servers \ {i}
      OBVIOUS
    <3>0. DOMAIN servers' = 1..Len(servers') /\ DOMAIN servers = 1..Len(servers) /\ Len(servers) \in Nat
      BY <1>1
    <3>1. j \in 1..Len(servers) - 1 /\ j \in Nat /\ i \in Nat
      BY <2>2, <3>0
    <3>2. servers'[j] = IF j < i THEN servers[j] ELSE servers[j + 1]
      BY <2>2, <3>1
    <3>3. j \in DOMAIN servers /\ j + 1 \in DOMAIN servers
      BY <3>0, <3>1
    <3>4. (j < i => j # i) /\ (~(j < i) => j + 1 # i)
      BY <3>1
    <3> QED
      BY <3>2, <3>3, <3>4
  <2>4. PICK n \in DOMAIN servers' : servers'[n] = servers[m]
    BY <1>3 DEF ToSet
  <2>5. m = IF n < i THEN n ELSE n + 1
    BY <1>4, <2>3, <2>4 DEF RegistryInv, ServersInv
  <2>6. n \in Offering(t)'
    BY <1>4, <1>5, <2>4 DEF Offering
  <2>7. ASSUME NEW j \in Offering(t)' PROVE n <= j
    <3>1. j \in DOMAIN servers' /\ t \in conns'[servers'[j]].tools
      BY DEF Offering
    <3>2. PICK k \in DOMAIN servers : k = (IF j < i THEN j ELSE j + 1) /\ servers'[j] = servers[k]
      BY <2>3, <3>1
    <3>3. k \in Offering(t)
      BY <1>5, <3>1, <3>2 DEF Offering
    <3>4. m <= k
      BY <1>3, <3>3
    <3>5. n \in Nat /\ j \in Nat /\ i \in Nat
      BY <1>1, <3>1
    <3> QED
      BY <2>5, <3>2, <3>4, <3>5
  <2> QED
    BY <1>7, <2>4, <2>6, <2>7
<1> QED
  BY <1>8, <1>9, RegistryMoves

-----------------------------------------------------------------------------
(* The validator of the phases of a server. What it surfaced decides what  *)
(* it may become; the log of a start is the start, and its last entry the  *)
(* phase the server is in.                                                 *)
Surfaced == [phase : Phases, recoverable : BOOLEAN]
Reports == [kind : {"success", "failure", "timeout"}, phase : Phases]
Passed(p) == [kind |-> "success", phase |-> p]
LifecycleTypes ==
  /\ phase \in Phases \cup {"none"} /\ surfaced \in Seq(Surfaced) /\ phaseErrors \subseteq Phases
  /\ phaseLog \in Seq(Reports)
SurfacedInv ==
  /\ (\E i \in DOMAIN phaseLog : phaseLog[i].kind # "success") => Len(surfaced) > 0
  /\ phase \in {"ready", "invocation"} /\ Len(surfaced) > 0 => Last(surfaced).recoverable
  /\ phase = "none" \/ (\E k \in 1..6 : phase = Startup[k]) => Len(surfaced) = 0
StartInv ==
  /\ phase = "none" => Len(phaseLog) = 0
  /\ \A k \in 1..5 : phase = Startup[k] => Len(phaseLog) = k
  /\ \A k \in 1..5 : \A n \in Ran(Startup[k]) : n = k /\ \A j \in 1..k : j \in Ran(Startup[j])
LastInv ==
  /\ phase \notin {"none", "error_surfacing"} => Len(phaseLog) > 0 /\ phaseLog[Len(phaseLog)] = Passed(phase)
  /\ Len(phaseLog) > 0 /\ phaseLog[Len(phaseLog)].kind = "success" => phaseLog[Len(phaseLog)].phase = phase
EndsInv ==
  /\ \A i \in Ran("invocation") : i - 1 \in Ran("ready")
  /\ \A i \in Ran("cleanup") : i < Len(phaseLog) => phaseLog[i + 1].kind # "success"
LifecycleInv == LifecycleTypes /\ SurfacedInv /\ StartInv /\ LastInv /\ EndsInv

LEMMA StartupIs ==
  /\ \A i \in 1..7 : Startup[i] \in Phases
  /\ \A i, j \in 1..7 : Startup[i] = Startup[j] => i = j
  /\ \A i \in 1..7 : Startup[i] \notin {"invocation", "error_surfacing", "shutdown", "cleanup", "none"}
  /\ Startup[1] = "config_load" /\ Startup[5] = "tool_discovery" /\ Startup[7] = "ready"
<1>1. DOMAIN Startup = 1..7
  BY DEF Startup
<1>2. \A i \in 1..7 : i = 1 \/ i = 2 \/ i = 3 \/ i = 4 \/ i = 5 \/ i = 6 \/ i = 7
  OBVIOUS
<1>3. /\ Startup[1] = "config_load" /\ Startup[2] = "server_registration" /\ Startup[3] = "spawn_connect"
      /\ Startup[4] = "initialize_handshake" /\ Startup[5] = "tool_discovery" /\ Startup[6] = "resource_discovery"
      /\ Startup[7] = "ready"
  BY DEF Startup
<1>4. \A i \in 1..7 : Startup[i] \in Phases
  BY <1>1 DEF Phases, ToSet
<1>5. \A i, j \in 1..7 : Startup[i] = Startup[j] => i = j
  BY <1>2, <1>3
<1>6. \A i \in 1..7 : Startup[i] \notin {"invocation", "error_surfacing", "shutdown", "cleanup", "none"}
  BY <1>2, <1>3
<1> QED
  BY <1>3, <1>4, <1>5, <1>6

LEMMA LifecycleInitInv == LifecycleInit => LifecycleInv
<1> SUFFICES ASSUME LifecycleInit PROVE LifecycleInv
  OBVIOUS
<1>1. phase = "none" /\ surfaced = <<>> /\ phaseErrors = {} /\ phaseLog = <<>>
  BY DEF LifecycleInit
<1>2. DOMAIN phaseLog = {} /\ Len(phaseLog) = 0 /\ Len(surfaced) = 0
  BY <1>1
<1>3. LifecycleTypes
  BY <1>1 DEF LifecycleTypes
<1>4. \A p : Ran(p) = {}
  BY <1>2 DEF Ran
<1>5. SurfacedInv
  BY <1>1, <1>2 DEF SurfacedInv
<1>6. StartInv
  BY <1>1, <1>2, <1>4, StartupIs DEF StartInv
<1>7. LastInv /\ EndsInv
  BY <1>1, <1>2, <1>4 DEF LastInv, EndsInv
<1> QED
  BY <1>3, <1>5, <1>6, <1>7 DEF LifecycleInv

(* What a report adds to the log.                                          *)
LEMMA Reported ==
  ASSUME LifecycleTypes, NEW entry \in Reports, phaseLog' = Append(phaseLog, entry)
  PROVE  /\ phaseLog' \in Seq(Reports) /\ Len(phaseLog') = Len(phaseLog) + 1 /\ phaseLog'[Len(phaseLog) + 1] = entry
         /\ DOMAIN phaseLog = 1..Len(phaseLog) /\ Len(phaseLog) \in Nat /\ DOMAIN phaseLog' = 1..(Len(phaseLog) + 1)
         /\ \A i \in DOMAIN phaseLog : phaseLog'[i] = phaseLog[i]
         /\ \A p : Ran(p)' = IF entry = Passed(p) THEN Ran(p) \cup {Len(phaseLog) + 1} ELSE Ran(p)
<1>1. /\ phaseLog \in Seq(Reports) /\ DOMAIN phaseLog = 1..Len(phaseLog) /\ Len(phaseLog) \in Nat
  BY DEF LifecycleTypes
<1>2. /\ phaseLog' \in Seq(Reports) /\ Len(phaseLog') = Len(phaseLog) + 1 /\ phaseLog'[Len(phaseLog) + 1] = entry
      /\ \A i \in 1..Len(phaseLog) : phaseLog'[i] = phaseLog[i]
  BY <1>1, AppendProperties
<1>3. DOMAIN phaseLog' = 1..(Len(phaseLog) + 1)
  BY <1>1, <1>2
<1>4. ASSUME NEW p PROVE Ran(p)' = IF entry = Passed(p) THEN Ran(p) \cup {Len(phaseLog) + 1} ELSE Ran(p)
  <2>1. Ran(p)' = {i \in 1..(Len(phaseLog) + 1) : phaseLog'[i] = Passed(p)}
    BY <1>3 DEF Ran, Passed
  <2>2. Ran(p) = {i \in 1..Len(phaseLog) : phaseLog'[i] = Passed(p)}
    BY <1>1, <1>2 DEF Ran, Passed
  <2>3. 1..(Len(phaseLog) + 1) = 1..Len(phaseLog) \cup {Len(phaseLog) + 1}
    BY <1>1
  <2> QED
    BY <1>2, <2>1, <2>2, <2>3, Zenon
<1> QED
  BY <1>1, <1>2, <1>3, <1>4

LEMMA SurfaceStep ==
  ASSUME LifecycleInv, NEW at \in Phases, NEW recoverable \in BOOLEAN, NEW kind \in {"failure", "timeout"},
         SurfaceError(at, recoverable, kind)
  PROVE  LifecycleInv'
<1>1. /\ surfaced' = Append(surfaced, [phase |-> at, recoverable |-> recoverable])
      /\ phaseErrors' = phaseErrors \cup {at, "error_surfacing"} /\ phase' = "error_surfacing"
  BY DEF SurfaceError
<1>2. PICK entry : entry = [kind |-> kind, phase |-> at]
  OBVIOUS
<1>3. entry \in Reports /\ entry.kind # "success" /\ phaseLog' = Append(phaseLog, entry) /\ \A p : entry # Passed(p)
  BY <1>2 DEF Reports, SurfaceError, Passed
<1>4. LifecycleTypes
  BY DEF LifecycleInv
<1>5. /\ phaseLog' \in Seq(Reports) /\ Len(phaseLog') = Len(phaseLog) + 1 /\ phaseLog'[Len(phaseLog) + 1] = entry
      /\ DOMAIN phaseLog = 1..Len(phaseLog) /\ Len(phaseLog) \in Nat
      /\ \A i \in DOMAIN phaseLog : phaseLog'[i] = phaseLog[i]
      /\ \A p : Ran(p)' = Ran(p)
  BY <1>3, <1>4, Reported
<1>6. surfaced' \in Seq(Surfaced) /\ Len(surfaced') = Len(surfaced) + 1 /\ Len(surfaced) \in Nat
  BY <1>1, <1>4, AppendProperties DEF LifecycleTypes, Surfaced
<1>7. "error_surfacing" \in Phases
  BY DEF Phases
<1>8. LifecycleTypes'
  BY <1>1, <1>4, <1>5, <1>6, <1>7 DEF LifecycleTypes
<1>9. SurfacedInv'
  BY <1>1, <1>6, StartupIs DEF SurfacedInv
<1>10. StartInv'
  BY <1>1, <1>5, StartupIs DEF LifecycleInv, StartInv
<1>11. LastInv'
  BY <1>1, <1>3, <1>5 DEF LastInv
<1>12. EndsInv'
  <2>1. \A i \in Ran("cleanup") : i < Len(phaseLog) + 1 => phaseLog'[i + 1].kind # "success"
    <3> SUFFICES ASSUME NEW i \in Ran("cleanup") PROVE phaseLog'[i + 1].kind # "success"
      OBVIOUS
    <3>1. i \in DOMAIN phaseLog
      BY DEF Ran
    <3>2. CASE i < Len(phaseLog)
      <4>1. i + 1 \in DOMAIN phaseLog
        BY <1>5, <3>1, <3>2
      <4> QED
        BY <1>5, <3>2, <4>1 DEF LifecycleInv, EndsInv
    <3>3. CASE i = Len(phaseLog)
      BY <1>3, <1>5, <3>3
    <3> QED
      BY <1>5, <3>1, <3>2, <3>3
  <2> QED
    BY <1>5, <2>1 DEF LifecycleInv, EndsInv
<1> QED
  BY <1>8, <1>9, <1>10, <1>11, <1>12 DEF LifecycleInv

LEMMA RunPhaseStep == ASSUME LifecycleInv, NEW to \in Phases, RunPhase(to) PROVE LifecycleInv'
<1>1. phase' = to /\ UNCHANGED <<surfaced, phaseErrors>>
  BY DEF RunPhase
<1>2. Passed(to) \in Reports /\ phaseLog' = Append(phaseLog, Passed(to)) /\ Passed(to).kind = "success"
      /\ Passed(to).phase = to /\ \A p : Passed(to) = Passed(p) <=> to = p
  BY DEF Reports, Passed, RunPhase
<1>3. LifecycleTypes
  BY DEF LifecycleInv
<1>4. /\ phaseLog' \in Seq(Reports) /\ Len(phaseLog') = Len(phaseLog) + 1 /\ phaseLog'[Len(phaseLog) + 1] = Passed(to)
      /\ DOMAIN phaseLog = 1..Len(phaseLog) /\ Len(phaseLog) \in Nat /\ DOMAIN phaseLog' = 1..(Len(phaseLog) + 1)
      /\ \A i \in DOMAIN phaseLog : phaseLog'[i] = phaseLog[i]
      /\ \A p : Ran(p)' = IF Passed(to) = Passed(p) THEN Ran(p) \cup {Len(phaseLog) + 1} ELSE Ran(p)
  BY <1>2, <1>3, Reported
<1>5. \A p : Ran(p)' = IF to = p THEN Ran(p) \cup {Len(phaseLog) + 1} ELSE Ran(p)
  BY <1>2, <1>4
<1>6. \/ phase = "none" /\ to = Startup[1]
      \/ to \in {"shutdown", "error_surfacing"} /\ phase # "cleanup"
      \/ \E i \in 1..6 : phase = Startup[i] /\ to = Startup[i + 1]
      \/ phase = Startup[5] /\ to = "ready"
      \/ phase = "ready" /\ to = "invocation"
      \/ phase = "invocation" /\ to = "ready"
      \/ phase = "error_surfacing" /\ to = "ready" /\ CanResume
      \/ phase = "shutdown" /\ to = "cleanup"
  BY StartupIs DEF RunPhase, ValidatePhaseTransition
<1>7. LifecycleTypes'
  BY <1>1, <1>3, <1>4 DEF LifecycleTypes
<1>8. Len(surfaced) \in Nat /\ (surfaced = <<>> => Len(surfaced) = 0)
  BY <1>3 DEF LifecycleTypes
<1>9. SurfacedInv'
  <2>1. (\E i \in DOMAIN phaseLog' : phaseLog'[i].kind # "success") => Len(surfaced) > 0
    <3>1. \A i \in DOMAIN phaseLog' : i \in DOMAIN phaseLog \/ phaseLog'[i].kind = "success"
      BY <1>2, <1>4
    <3> QED
      BY <1>4, <3>1 DEF LifecycleInv, SurfacedInv
  <2>2. ASSUME to \in {"ready", "invocation"}, Len(surfaced) > 0 PROVE Last(surfaced).recoverable
    <3>1. CASE \E k \in 1..6 : phase = Startup[k]
      BY <1>8, <2>2, <3>1 DEF LifecycleInv, SurfacedInv
    <3>2. CASE phase \in {"ready", "invocation"}
      BY <2>2, <3>2 DEF LifecycleInv, SurfacedInv
    <3>3. CASE CanResume
      BY <3>3 DEF CanResume
    <3>4. phase = "none" /\ to = Startup[1] => FALSE
      BY <2>2, StartupIs
    <3> QED
      BY <1>6, <2>2, <3>1, <3>2, <3>3, <3>4
  <2>3. ASSUME NEW k \in 1..6, to = Startup[k] PROVE Len(surfaced) = 0
    <3>1. to \notin {"invocation", "error_surfacing", "shutdown", "cleanup", "ready"}
      <4>1. to # Startup[7]
        BY <2>3, StartupIs
      <4> QED
        BY <2>3, <4>1, StartupIs
    <3>2. phase = "none" \/ \E i \in 1..6 : phase = Startup[i]
      BY <1>6, <3>1
    <3> QED
      BY <3>2 DEF LifecycleInv, SurfacedInv
  <2>4. to # "none"
    BY StartupIs DEF Phases, ToSet, Startup
  <2> QED
    BY <1>1, <2>1, <2>2, <2>3, <2>4 DEF SurfacedInv
<1>10. StartInv'
  <2>1. to # "none"
    BY StartupIs DEF Phases, ToSet, Startup
  <2>2. ASSUME NEW k \in 1..5, to = Startup[k]
        PROVE  Len(phaseLog) + 1 = k /\ \A j \in 1..(k - 1) : j \in Ran(Startup[j])
    <3>1. to \notin {"invocation", "error_surfacing", "shutdown", "cleanup", "ready"}
      <4>1. to # Startup[7]
        BY <2>2, StartupIs
      <4> QED
        BY <2>2, <4>1, StartupIs
    <3>2. CASE phase = "none" /\ to = Startup[1]
      <4>1. 1 \in 1..7 /\ k \in 1..7 /\ Startup[1] = Startup[k]
        BY <2>2, <3>2
      <4>2. k = 1
        BY <4>1, StartupIs
      <4>3. Len(phaseLog) = 0
        BY <3>2 DEF LifecycleInv, StartInv
      <4>4. 1..(k - 1) = {}
        BY <4>2
      <4> QED
        BY <4>2, <4>3, <4>4
    <3>3. ASSUME NEW i \in 1..6, phase = Startup[i], to = Startup[i + 1]
          PROVE  Len(phaseLog) + 1 = k /\ \A j \in 1..(k - 1) : j \in Ran(Startup[j])
      <4>1. i + 1 = k /\ i \in 1..5
        <5>1. i + 1 \in 1..7 /\ k \in 1..7 /\ Startup[i + 1] = Startup[k]
          BY <2>2, <3>3
        <5>2. i + 1 = k
          BY <5>1, StartupIs
        <5> QED
          BY <5>2
      <4>2. Len(phaseLog) = i
        BY <3>3, <4>1 DEF LifecycleInv, StartInv
      <4>3. phaseLog[i] = Passed(Startup[i]) /\ i \in DOMAIN phaseLog
        BY <1>4, <3>3, <4>1, <4>2, StartupIs DEF LifecycleInv, LastInv
      <4>4. i \in Ran(Startup[i])
        BY <4>3 DEF Ran, Passed
      <4>5. \A j \in 1..i : j \in Ran(Startup[j])
        BY <4>1, <4>4 DEF LifecycleInv, StartInv
      <4> QED
        BY <4>1, <4>2, <4>5
    <3> QED
      BY <1>6, <3>1, <3>2, <3>3
  <2>3. ASSUME NEW k \in 1..5, NEW n \in Ran(Startup[k])' PROVE n = k /\ \A j \in 1..k : j \in Ran(Startup[j])'
    <3>1. \A p : Ran(p) \subseteq Ran(p)'
      BY <1>5
    <3>2. CASE n \in Ran(Startup[k])
      BY <3>1, <3>2 DEF LifecycleInv, StartInv
    <3>3. CASE n \notin Ran(Startup[k])
      <4>1. to = Startup[k] /\ n = Len(phaseLog) + 1
        BY <1>5, <2>3, <3>3
      <4>2. n = k /\ \A j \in 1..(k - 1) : j \in Ran(Startup[j])
        BY <2>2, <4>1
      <4> QED
        BY <2>3, <3>1, <4>2
    <3> QED
      BY <3>2, <3>3
  <2> QED
    BY <1>1, <1>4, <2>1, <2>2, <2>3 DEF StartInv
<1>11. LastInv'
  BY <1>1, <1>2, <1>4 DEF LastInv
<1>12. EndsInv'
  <2>1. ASSUME NEW i \in Ran("invocation")' PROVE i - 1 \in Ran("ready")'
    <3>1. CASE i \in Ran("invocation")
      BY <1>5, <3>1 DEF LifecycleInv, EndsInv
    <3>2. CASE i \notin Ran("invocation")
      <4>1. to = "invocation" /\ i = Len(phaseLog) + 1
        BY <1>5, <2>1, <3>2
      <4>2. phase = "ready"
        <5>1. \A k \in 1..7 : to # Startup[k]
          BY <4>1, StartupIs
        <5> QED
          BY <1>6, <4>1, <5>1
      <4>3. Len(phaseLog) \in DOMAIN phaseLog /\ phaseLog[Len(phaseLog)] = Passed("ready")
        BY <1>4, <4>2 DEF LifecycleInv, LastInv
      <4>4. i - 1 \in Ran("ready")
        BY <1>4, <4>1, <4>3 DEF Ran, Passed
      <4> QED
        BY <1>5, <4>4
    <3> QED
      BY <3>1, <3>2
  <2>2. ASSUME NEW i \in Ran("cleanup")', i < Len(phaseLog) + 1 PROVE phaseLog'[i + 1].kind # "success"
    <3>1. i \in Ran("cleanup") /\ i \in DOMAIN phaseLog /\ phaseLog[i] = Passed("cleanup")
      BY <1>4, <1>5, <2>2 DEF Ran, Passed
    <3>2. CASE i < Len(phaseLog)
      <4>1. i + 1 \in DOMAIN phaseLog
        BY <1>4, <3>1, <3>2
      <4> QED
        BY <1>4, <3>1, <3>2, <4>1 DEF LifecycleInv, EndsInv
    <3>3. CASE i = Len(phaseLog)
      <4>1. phase = "cleanup"
        BY <1>4, <3>1, <3>3 DEF LifecycleInv, LastInv, Passed
      <4> QED
        BY <1>6, <4>1, StartupIs
    <3> QED
      BY <1>4, <3>1, <3>2, <3>3
  <2> QED
    BY <1>4, <2>1, <2>2 DEF EndsInv
<1> QED
  BY <1>7, <1>9, <1>10, <1>11, <1>12 DEF LifecycleInv

LEMMA LifecycleNextInv == ASSUME LifecycleInv, LifecycleNext PROVE LifecycleInv'
<1>1. ASSUME NEW at \in ErrorPhases, RecordTimeout(at) PROVE LifecycleInv'
  BY <1>1, SurfaceStep, LifecycleAssumption DEF RecordTimeout
<1>2. ASSUME NEW at \in ErrorPhases, NEW r \in BOOLEAN, RecordFailure(at, r) PROVE LifecycleInv'
  BY <1>2, SurfaceStep, LifecycleAssumption DEF RecordFailure
<1> QED
  BY <1>1, <1>2, RunPhaseStep DEF LifecycleNext

(* What the validator promises.                                            *)
LEMMA LifecycleKeeps == LifecycleInv => LifecycleTypeOK /\ UsableOnlyAfterRecoverable /\ StartsInOrder
<1> SUFFICES ASSUME LifecycleInv PROVE LifecycleTypeOK /\ UsableOnlyAfterRecoverable /\ StartsInOrder
  OBVIOUS
<1>1. LifecycleTypeOK
  <2>1. (\A i \in DOMAIN surfaced : surfaced[i] \in Surfaced) /\ \A i \in DOMAIN phaseLog : phaseLog[i] \in Reports
    BY DEF LifecycleInv, LifecycleTypes
  <2> QED
    BY <2>1 DEF LifecycleInv, LifecycleTypes, Surfaced, Reports, LifecycleTypeOK
<1>2. UsableOnlyAfterRecoverable
  BY DEF LifecycleInv, SurfacedInv, UsableOnlyAfterRecoverable
<1>3. ASSUME NEW i \in 1..4, Ran(Startup[i + 1]) # {}
      PROVE  /\ Cardinality(Ran(Startup[i + 1])) = 1
             /\ Ran(Startup[i]) # {} /\ Max(Ran(Startup[i])) < Max(Ran(Startup[i + 1]))
  <2>1. Ran(Startup[i + 1]) = {i + 1} /\ i \in Ran(Startup[i])
    BY <1>3 DEF LifecycleInv, StartInv
  <2>2. Ran(Startup[i]) = {i}
    BY <2>1 DEF LifecycleInv, StartInv
  <2>3. \A n \in Nat : Max({n}) = n
    BY DEF Max
  <2>4. Cardinality({i + 1}) = 1
    BY FS_Singleton
  <2> QED
    BY <2>1, <2>2, <2>3, <2>4
<1>4. \A i \in Ran("invocation") : \E j \in Ran("ready") : j = i - 1
  BY DEF LifecycleInv, EndsInv
<1>5. \A i \in Ran("cleanup") : i < Len(phaseLog) => phaseLog[i + 1].kind # "success"
  BY DEF LifecycleInv, EndsInv
<1> QED
  BY <1>1, <1>2, <1>3, <1>4, <1>5 DEF StartsInOrder

-----------------------------------------------------------------------------
(* The settings. A program at work on the project file carries what it will *)
(* write, which has what the command set and, unless it is blind, the hooks  *)
(* that were in the file; and those are in the file but while somebody      *)
(* writes it. The empty string stays unexpanded: the provers do not read it. *)
Modes == {"prompt", "read-only", "allow", "workspace-write", "danger-full-access", "dont-ask", "auto"}
Written == {"model", "permissionMode"}
IsFile(file) ==
  /\ {"json", "typed", "model", "permissionMode", "hooks"} \subseteq DOMAIN file
  /\ file.json \in {"absent", "empty", "garbage", "object"}
  /\ file.json = "absent" => file.hooks = Empty
Carries(file, patch) == \A k \in Written : patch[k] # Empty => file[k] = patch[k]

ProgramKeys == {"up", "model", "mode", "perm", "effort", "allowed", "kept", "hooks", "step", "patch", "toWrite", "blind", "answer", "modeBy"}
IsProgram(task) ==
  /\ ProgramKeys \subseteq DOMAIN task
  /\ task.up \in {"no", "starting", "yes"} /\ task.step \in {"idle", "read", "truncate", "write"}
  /\ task.step # "idle" => task.up = "yes"
  /\ task.perm \in Modes \cup {Empty}
  /\ task.modeBy # "config" => task.mode = task.perm
  /\ task.step \in {"truncate", "write"} =>
       IsFile(task.toWrite) /\ task.toWrite.json = "object" /\ Carries(task.toWrite, task.patch)
RunningInv == DOMAIN running = SettingsUsers /\ \A u \in SettingsUsers : IsProgram(running[u])
LayersInv ==
  /\ DOMAIN layers = {"user", "project", "local"} /\ \A n \in DOMAIN layers : IsFile(layers[n])
  /\ changes \in 0..MaxChanges
WrittenInv == DOMAIN written = Written /\ Carries(layers["project"], written)
UnmanagedInv ==
  unmanaged # "lost" =>
    /\ \A u \in SettingsUsers :
         running[u].step \in {"truncate", "write"} /\ ~running[u].blind => running[u].toWrite.hooks = unmanaged
    /\ \/ layers["project"].hooks = unmanaged
       \/ layers["project"].json = "empty" /\ \E u \in SettingsUsers : running[u].step = "write"
SettingsInv == RunningInv /\ LayersInv /\ WrittenInv /\ UnmanagedInv

LEMMA EmptyIs == Empty \notin {"error", "config", "lost", "lint", "default"}
BY Zenon DEF Empty

LEMMA ParseIs == \A word : Parse(word) \in Modes \cup {"error"}
BY DEF Parse, Modes

LEMMA ObjectIs ==
  ASSUME NEW m, NEW p, NEW h
  PROVE  /\ IsFile(Object(m, p, h)) /\ Object(m, p, h).json = "object" /\ Object(m, p, h).typed
         /\ Object(m, p, h).model = m /\ Object(m, p, h).permissionMode = p /\ Object(m, p, h).hooks = h
BY DEF Object, IsFile

LEMMA FilesAre ==
  /\ IsFile(NoFile) /\ NoFile.json = "absent" /\ NoFile.hooks = Empty
  /\ IsFile(EmptyFile) /\ EmptyFile.json = "empty"
  /\ IsFile(Garbage) /\ Garbage.json = "garbage"
  /\ IsFile(Mistyped)
<1>1. PICK file : file = Object(Empty, Empty, Empty)
  OBVIOUS
<1>2. PICK mistyped : mistyped = Object(Empty, Empty, "lint")
  OBVIOUS
<1>3. IsFile(file) /\ file.hooks = Empty /\ IsFile(mistyped) /\ mistyped.json = "object"
  BY <1>1, <1>2, ObjectIs
<1>4. NoFile = [file EXCEPT !.json = "absent"] /\ Mistyped = [mistyped EXCEPT !.typed = FALSE]
  BY <1>1, <1>2 DEF NoFile, Mistyped
<1>5. IsFile(NoFile) /\ NoFile.json = "absent" /\ NoFile.hooks = Empty /\ IsFile(Mistyped)
  BY <1>3, <1>4 DEF IsFile
<1>6. PICK none : none = NoFile
  OBVIOUS
<1>7. EmptyFile = [none EXCEPT !.json = "empty"] /\ Garbage = [none EXCEPT !.json = "garbage"]
  BY <1>6 DEF EmptyFile, Garbage
<1> QED
  BY <1>5, <1>6, <1>7 DEF IsFile

LEMMA NotRunningIs ==
  /\ IsProgram(NotRunning) /\ NotRunning.answer # "error" /\ NotRunning.step = "idle" /\ NotRunning.modeBy = "start"
  /\ NotRunning.mode = Empty /\ NotRunning.perm = Empty /\ ~NotRunning.blind
BY EmptyIs DEF NotRunning, IsProgram, ProgramKeys

(* What is written is what was set over what is there.                     *)
LEMMA OverlayIs ==
  ASSUME NEW file, IsFile(file), NEW patch
  PROVE  /\ IsFile(Overlay(file, patch)) /\ Overlay(file, patch).json = "object" /\ Carries(Overlay(file, patch), patch)
         /\ file.json \in {"absent", "object"} => Overlay(file, patch).hooks = file.hooks
<1>1. PICK base : base = IF file.json = "object" THEN file ELSE Object(Empty, Empty, Empty)
  OBVIOUS
<1>2. IsFile(base) /\ base.json = "object" /\ (file.json \in {"absent", "object"} => base.hooks = file.hooks)
  BY <1>1, ObjectIs DEF IsFile
<1>3. PICK m : m = IF patch.model # Empty THEN patch.model ELSE base.model
  OBVIOUS
<1>4. PICK p : p = IF patch.permissionMode # Empty THEN patch.permissionMode ELSE base.permissionMode
  OBVIOUS
<1>5. PICK t : t = (base.typed \/ patch.model # Empty)
  OBVIOUS
<1>6. Overlay(file, patch) = [base EXCEPT !.model = m, !.permissionMode = p, !.typed = t]
  BY <1>1, <1>2, <1>3, <1>4, <1>5 DEF Overlay, IsFile
<1>7. PICK over : over = [base EXCEPT !.model = m, !.permissionMode = p, !.typed = t]
  OBVIOUS
<1>8. DOMAIN over = DOMAIN base /\ over.model = m /\ over.permissionMode = p /\ over.json = base.json /\ over.hooks = base.hooks
  BY <1>2, <1>7 DEF IsFile
<1> QED
  BY <1>2, <1>3, <1>4, <1>6, <1>7, <1>8 DEF IsFile, Carries, Written

(* The answers of the slash commands: done, with something set that is not *)
(* part of a write, or refused and nothing set.                            *)
Like(q, task) ==
  /\ DOMAIN q = DOMAIN task /\ q.up = task.up /\ q.step = task.step /\ q.patch = task.patch /\ q.toWrite = task.toWrite
  /\ \/ q.perm = task.perm /\ q.mode = task.mode /\ q.modeBy = task.modeBy
     \/ q.perm \in Modes /\ q.mode = q.perm
Answered(task, result) ==
  \/ result = Refused(task)
  \/ \E q : result = Done(q) /\ Like(q, task)

LEMMA AnswersAre ==
  ASSUME NEW task, ProgramKeys \subseteq DOMAIN task, NEW result \in Answers(task) PROVE Answered(task, result)
<1>0. Answered(task, Refused(task)) /\ Answered(task, Done(task))
  BY DEF Answered, Like
<1>1. ASSUME NEW q, Like(q, task) PROVE Answered(task, Done(q))
  BY <1>1 DEF Answered
<1>2. /\ \A m : Like([task EXCEPT !.model = m], task)
      /\ \A e : Like([task EXCEPT !.effort = e], task)
      /\ \A n : Like([task EXCEPT !.kept = n], task)
      /\ \A n : Like([task EXCEPT !.allowed = n], task)
      /\ \A p \in Modes : Like([task EXCEPT !.perm = p, !.mode = p, !.modeBy = "slash"], task)
  BY DEF Like, ProgramKeys
<1>3. \A m : Answered(task, ModelCommand(task, m))
  BY <1>0, <1>1, <1>2, Zenon DEF ModelCommand, SetModel
<1>4. \A w : Answered(task, PermissionsCommand(task, w))
  <2>1. \A w : Parse(w) # "error" => Parse(w) \in Modes
    BY ParseIs
  <2> QED
    BY <1>0, <1>1, <1>2, <2>1, Zenon DEF PermissionsCommand, SetPermissionMode
<1>5. \A r : Answered(task, ReasoningCommand(task, r))
  BY <1>0, <1>1, <1>2, Zenon DEF ReasoningCommand, SetReasoningMode
<1>6. \A e : Answered(task, SetEffort(task, e))
  BY <1>0, <1>1, <1>2, Zenon DEF SetEffort
<1>7. \A a : Answered(task, AllowedToolsCommand(task, a))
  <2>1. [task EXCEPT !.allowed = @ + 1] = [task EXCEPT !.allowed = task.allowed + 1]
        /\ [task EXCEPT !.allowed = @ - 1] = [task EXCEPT !.allowed = task.allowed - 1]
    BY DEF ProgramKeys
  <2>2. Answered(task, AddAllowedTool(task)) /\ Answered(task, RemoveAllowedTool(task))
    BY <1>0, <1>1, <1>2, <2>1, Zenon DEF AddAllowedTool, RemoveAllowedTool
  <2>3. \A a : AllowedToolsCommand(task, a) \in {AddAllowedTool(task), RemoveAllowedTool(task), Done(task)}
    BY DEF AllowedToolsCommand
  <2> QED
    BY <1>0, <2>2, <2>3, Zenon
<1>8. \A n : Answered(task, SetMaxTokens(task, n))
  BY <1>0, <1>1, <1>2, Zenon DEF SetMaxTokens
<1>9. \A n : Answered(task, MaxTokensCommand(task, n)) /\ Answered(task, SystemPromptCommand(task, n)) /\ Answered(task, ApiKeyCommand(task, n))
  BY <1>0, <1>8, Zenon DEF MaxTokensCommand, SystemPromptCommand, ApiKeyCommand
<1>10. \A t, v : Answered(task, TemperatureCommand(task, t)) /\ Answered(task, RateLimitCommand(task, t, v))
  BY <1>0, Zenon DEF TemperatureCommand, RateLimitCommand, SetRateLimit
<1>11. Answered(task, UltraPlan(task)) /\ Answered(task, PlanCommand(task)) /\ Answered(task, TelemetryCommand(task))
       /\ Answered(task, BudgetCommand(task))
  BY <1>0, <1>6, Zenon DEF UltraPlan, PlanCommand, TelemetryCommand, BudgetCommand
<1> QED
  BY <1>3, <1>4, <1>5, <1>6, <1>7, <1>9, <1>10, <1>11, Zenon DEF Answers

LEMMA SettingsInitInv == SettingsInit => SettingsInv
<1> SUFFICES ASSUME SettingsInit PROVE SettingsInv
  OBVIOUS
<1>1. RunningInv
  BY NotRunningIs, Zenon DEF SettingsInit, RunningInv
<1>2. LayersInv
  <2>1. PICK a, b, c : layers = [user |-> a, project |-> b, local |-> c] /\ IsFile(a) /\ IsFile(b) /\ IsFile(c)
    <3>1. PICK files : files = {file \in {NoFile, Object("m1", "plan", "lint"), Object(Empty, "danger-full-access", "lint"), Object("m2", "bogus", Empty)} : IsFile(file)}
      OBVIOUS
    <3>2. {Object("m1", "plan", "lint")} \subseteq files /\ {NoFile, Object(Empty, "danger-full-access", "lint")} \subseteq files
          /\ {NoFile, Object("m2", "bogus", Empty)} \subseteq files
      BY <3>1, FilesAre, ObjectIs
    <3>3. layers \in [user : {Object("m1", "plan", "lint")}, project : {NoFile, Object(Empty, "danger-full-access", "lint")},
                      local : {NoFile, Object("m2", "bogus", Empty)}]
      BY Zenon DEF SettingsInit
    <3>4. layers \in [user : files, project : files, local : files]
      BY <3>2, <3>3
    <3> QED
      BY <3>1, <3>4
  <2> QED
    BY <2>1, SettingsAssumption DEF LayersInv, SettingsInit
<1>3. WrittenInv
  BY DEF WrittenInv, SettingsInit, Unwritten, Written, Carries
<1>4. UnmanagedInv
  BY NotRunningIs DEF UnmanagedInv, SettingsInit
<1> QED
  BY <1>1, <1>2, <1>3, <1>4 DEF SettingsInv

RefusedStep ==
  \A u \in SettingsUsers :
    running[u].step = "idle" /\ running'[u].answer = "error" /\ running[u].answer # "error"
      => running'[u] = Refused(running[u])

(* Of one program that makes a step: what the others are stays.            *)
Moved(u, now) ==
  /\ running' = [running EXCEPT ![u] = now] /\ IsProgram(now)
  /\ running[u].step = "idle" /\ running[u].answer # "error" /\ now.answer = "error" => now = Refused(running[u])

LEMMA MovedIs ==
  ASSUME RunningInv, NEW u \in SettingsUsers, NEW now, Moved(u, now)
  PROVE  RunningInv' /\ RefusedStep /\ running'[u] = now /\ \A v \in SettingsUsers \ {u} : running'[v] = running[v]
<1>1. DOMAIN running' = SettingsUsers /\ running'[u] = now /\ \A v \in SettingsUsers \ {u} : running'[v] = running[v]
  BY DEF Moved, RunningInv
<1>2. RunningInv'
  BY <1>1 DEF RunningInv, Moved, IsProgram
<1>3. RefusedStep
  BY <1>1 DEF RefusedStep, Moved
<1> QED
  BY <1>1, <1>2, <1>3

(* A step of a program that is not at the file and carries nothing new     *)
(* leaves the file and what is known of it.                                *)
LEMMA CalmStep ==
  ASSUME SettingsInv, NEW u \in SettingsUsers, NEW now, Moved(u, now), now.step \in {"idle", "read"},
         running[u].step # "write", UNCHANGED <<layers, written, unmanaged>>, changes' \in 0..MaxChanges
  PROVE  SettingsInv' /\ RefusedStep
<1>1. RunningInv' /\ RefusedStep /\ running'[u] = now /\ \A v \in SettingsUsers \ {u} : running'[v] = running[v]
  BY MovedIs DEF SettingsInv
<1>2. LayersInv'
  BY DEF SettingsInv, LayersInv
<1>3. WrittenInv'
  BY DEF SettingsInv, WrittenInv, Carries
<1>4. UnmanagedInv'
  BY <1>1 DEF SettingsInv, UnmanagedInv
<1> QED
  BY <1>1, <1>2, <1>3, <1>4 DEF SettingsInv

LEMMA ProgramStep == ASSUME SettingsInv, NEW u \in SettingsUsers, StartProgram(u) PROVE SettingsInv' /\ RefusedStep
<1>0. IsProgram(running[u]) /\ running[u].up = "no"
  BY DEF StartProgram, SettingsInv, RunningInv
<1>1. PICK a, b : /\ b \in Modes
                  /\ running' = [running EXCEPT ![u] = [NotRunning EXCEPT !.up = "starting", !.model = a, !.mode = b, !.perm = b]]
  <2>1. PICK flags \in StartFlags :
          LET mode == BootMode(ResolvedMode(flags[2], flags[3]))
          IN running' = [running EXCEPT ![u] = [NotRunning EXCEPT !.up = "starting",
                           !.model = LoadedModel(flags[1]), !.mode = mode, !.perm = mode]]
    BY Zenon DEF StartProgram
  <2>2. BootMode(ResolvedMode(flags[2], flags[3])) \in Modes
    BY ParseIs DEF BootMode, Modes
  <2> QED
    BY <2>1, <2>2, Zenon
<1>2. PICK now : now = [NotRunning EXCEPT !.up = "starting", !.model = a, !.mode = b, !.perm = b]
  OBVIOUS
<1>3. IsProgram(now) /\ now.answer = NotRunning.answer /\ now.step = "idle"
  BY <1>1, <1>2, NotRunningIs DEF IsProgram, ProgramKeys
<1>4. Moved(u, now)
  BY <1>1, <1>2, <1>3, NotRunningIs DEF Moved
<1>5. running[u].step # "write" /\ UNCHANGED <<layers, written, unmanaged>> /\ changes' \in 0..MaxChanges
  BY <1>0 DEF IsProgram, StartProgram, SettingsInv, LayersInv
<1> QED
  BY <1>3, <1>4, <1>5, CalmStep

LEMMA FeaturesStep == ASSUME SettingsInv, NEW u \in SettingsUsers, LoadFeatures(u) PROVE SettingsInv' /\ RefusedStep
<1>0. DOMAIN running = SettingsUsers /\ IsProgram(running[u]) /\ running[u].up = "starting"
  BY DEF LoadFeatures, SettingsInv, RunningInv
<1>1. PICK h : running' = [running EXCEPT ![u].up = "yes", ![u].hooks = h]
  BY DEF LoadFeatures
<1>2. PICK now : now = [running[u] EXCEPT !.up = "yes", !.hooks = h]
  OBVIOUS
<1>3. running' = [running EXCEPT ![u] = now]
  BY <1>0, <1>1, <1>2
<1>4. IsProgram(now) /\ now.answer = running[u].answer /\ now.step = "idle" /\ running[u].step = "idle"
  BY <1>0, <1>2 DEF IsProgram, ProgramKeys
<1>5. Moved(u, now)
  BY <1>3, <1>4 DEF Moved
<1>6. UNCHANGED <<layers, written, unmanaged>> /\ changes' \in 0..MaxChanges
  BY DEF LoadFeatures, SettingsInv, LayersInv
<1> QED
  BY <1>4, <1>5, <1>6, CalmStep

(* A command that goes on to write.                                        *)
LEMMA BeginWriteIs ==
  ASSUME NEW task, NEW patch, IsProgram(task), task.up = "yes"
  PROVE  /\ IsProgram(BeginWrite(task, patch)) /\ BeginWrite(task, patch).step = "read"
         /\ BeginWrite(task, patch).answer # "error"
<1>1. PICK now : now = BeginWrite(task, patch)
  OBVIOUS
<1>2. now = [task EXCEPT !.step = "read", !.patch = patch, !.answer = Empty]
  BY <1>1 DEF BeginWrite
<1>3. IsProgram(now) /\ now.step = "read" /\ now.answer # "error"
  BY <1>2, EmptyIs DEF IsProgram, ProgramKeys
<1> QED
  BY <1>1, <1>3

LEMMA CommandStep ==
  ASSUME SettingsInv, NEW u \in SettingsUsers, ConfigSet(u) \/ InitProject(u) \/ SlashCommand(u)
  PROVE  SettingsInv' /\ RefusedStep
<1>0. /\ IsProgram(running[u]) /\ running[u].up = "yes" /\ running[u].step = "idle"
      /\ UNCHANGED <<layers, written, unmanaged>> /\ changes' \in 0..MaxChanges
  <2>1. AtPrompt(u) /\ changes' = changes + 1 /\ UNCHANGED <<layers, written, unmanaged>>
    BY Zenon DEF ConfigSet, InitProject, SlashCommand
  <2> QED
    BY <2>1, SettingsAssumption DEF AtPrompt, SettingsInv, RunningInv, LayersInv
<1>1. ASSUME NEW task, NEW patch, IsProgram(task), task.up = "yes", running' = [running EXCEPT ![u] = BeginWrite(task, patch)]
      PROVE  SettingsInv' /\ RefusedStep
  <2>1. Moved(u, BeginWrite(task, patch)) /\ BeginWrite(task, patch).step = "read"
    BY <1>1, BeginWriteIs DEF Moved
  <2> QED
    BY <1>0, <2>1, CalmStep
<1>2. ASSUME NEW q, Like(q, running[u]), NEW a, a \in {"ok", "error"}, NEW now, now = [q EXCEPT !.answer = a]
      PROVE  IsProgram(now) /\ now.step = "idle" /\ now.answer = a
  BY <1>0, <1>2 DEF IsProgram, ProgramKeys, Like
<1>3. Like(running[u], running[u])
  BY DEF Like
<1>4. ASSUME running' = [running EXCEPT ![u] = Refused(running[u])] PROVE SettingsInv' /\ RefusedStep
  <2>1. PICK now : now = Refused(running[u])
    OBVIOUS
  <2>2. IsProgram(now) /\ now.step = "idle"
    BY <1>2, <1>3, <2>1 DEF Refused
  <2>3. Moved(u, now)
    BY <1>4, <2>1, <2>2 DEF Moved
  <2> QED
    BY <1>0, <2>2, <2>3, CalmStep
<1>5. CASE ConfigSet(u)
  <2>1. PICK task, patch : /\ running' = [running EXCEPT ![u] = BeginWrite(task, patch)]
                           /\ \/ \E m : task = [running[u] EXCEPT !.model = m]
                              \/ \E w : task = [running[u] EXCEPT !.mode = w, !.modeBy = "config"]
    <3>1. CASE \E m \in Models : running' = [running EXCEPT ![u] = BeginWrite([@ EXCEPT !.model = m], Object(m, Empty, Empty))]
      <4>1. PICK m \in Models : running' = [running EXCEPT ![u] = BeginWrite([running[u] EXCEPT !.model = m], Object(m, Empty, Empty))]
        BY <3>1, Zenon
      <4> QED
        BY <4>1, Zenon
    <3>2. CASE \E w \in ModeWords : running' = [running EXCEPT ![u] = BeginWrite([@ EXCEPT !.mode = w, !.modeBy = "config"], Object(Empty, w, Empty))]
      <4>1. PICK w \in ModeWords :
              running' = [running EXCEPT ![u] = BeginWrite([running[u] EXCEPT !.mode = w, !.modeBy = "config"], Object(Empty, w, Empty))]
        BY <3>2, Zenon
      <4> QED
        BY <4>1, Zenon
    <3> QED
      BY <1>5, <3>1, <3>2, Zenon DEF ConfigSet
  <2>2. IsProgram(task) /\ task.up = "yes"
    BY <1>0, <2>1 DEF IsProgram, ProgramKeys
  <2> QED
    BY <1>1, <2>1, <2>2
<1>6. CASE InitProject(u)
  <2>1. \/ running' = [running EXCEPT ![u] = Refused(running[u])]
        \/ \E patch : running' = [running EXCEPT ![u] = BeginWrite(running[u], patch)]
    BY <1>6, Zenon DEF InitProject, Refused
  <2> QED
    BY <1>0, <1>1, <1>4, <2>1
<1>7. CASE SlashCommand(u)
  <2>1. PICK now \in Answers(running[u]) : running' = [running EXCEPT ![u] = now]
    BY <1>7 DEF SlashCommand
  <2>2. Answered(running[u], now)
    BY <1>0, AnswersAre DEF IsProgram
  <2>3. ASSUME NEW q, now = Done(q), Like(q, running[u]) PROVE SettingsInv' /\ RefusedStep
    <3>1. IsProgram(now) /\ now.step = "idle" /\ now.answer # "error"
      BY <1>2, <2>3 DEF Done
    <3>2. Moved(u, now)
      BY <2>1, <3>1 DEF Moved
    <3> QED
      BY <1>0, <3>1, <3>2, CalmStep
  <2> QED
    BY <1>4, <2>1, <2>2, <2>3 DEF Answered
<1> QED
  BY <1>5, <1>6, <1>7

(* A write that breaks leaves the file, or what nobody can read.           *)
LEMMA GiveUpStep ==
  ASSUME SettingsInv, NEW u \in SettingsUsers, WriteFails(u) \/ ProgramStops(u) PROVE SettingsInv' /\ RefusedStep
<1>0. /\ DOMAIN running = SettingsUsers /\ IsProgram(running[u]) /\ IsFile(layers["project"])
      /\ DOMAIN layers = {"user", "project", "local"} /\ changes' \in 0..MaxChanges
  BY DEF WriteFails, ProgramStops, SettingsInv, RunningInv, LayersInv
<1>1. PICK file \in {layers["project"]} \cup (IF running[u].step = "write" THEN Lands(Garbage) ELSE {}) :
        /\ layers' = [layers EXCEPT !["project"] = file]
        /\ written' = IF file.json = "object" THEN written ELSE Unwritten
        /\ unmanaged' = IF running[u].step = "write" /\ file.json \in {"empty", "garbage"} THEN "lost" ELSE unmanaged
  BY Zenon DEF WriteFails, ProgramStops, Breaks
<1>2. \/ file = layers["project"]
      \/ file = Garbage /\ running[u].step = "write"
      \/ file = NoFile /\ layers["project"].json = "absent"
  BY <1>1 DEF Lands
<1>3. PICK now : Moved(u, now) /\ now.step = "idle"
  <2>1. CASE WriteFails(u)
    <3>1. PICK now : now = [running[u] EXCEPT !.step = "idle", !.answer = "error", !.patch = NoFile, !.toWrite = NoFile, !.blind = FALSE]
      OBVIOUS
    <3>2. running' = [running EXCEPT ![u] = now] /\ running[u].step # "idle"
      BY <1>0, <2>1, <3>1 DEF WriteFails, Rested
    <3>3. IsProgram(now) /\ now.step = "idle"
      BY <1>0, <3>1 DEF IsProgram, ProgramKeys
    <3>4. Moved(u, now)
      BY <3>2, <3>3 DEF Moved
    <3> QED
      BY <3>3, <3>4
  <2>2. CASE ProgramStops(u)
    <3>1. Moved(u, NotRunning)
      BY <2>2, NotRunningIs DEF ProgramStops, Moved
    <3> QED
      BY <3>1, NotRunningIs
  <2> QED
    BY <2>1, <2>2
<1>4. RunningInv' /\ RefusedStep /\ running'[u] = now /\ \A v \in SettingsUsers \ {u} : running'[v] = running[v]
  BY <1>3, MovedIs DEF SettingsInv
<1>5. LayersInv'
  BY <1>0, <1>1, <1>2, FilesAre DEF SettingsInv, LayersInv
<1>6. WrittenInv'
  <2>1. layers'["project"] = file /\ (file.json = "object" => file = layers["project"])
    BY <1>0, <1>1, <1>2, FilesAre
  <2> QED
    BY <1>1, <2>1 DEF SettingsInv, WrittenInv, Unwritten, Written, Carries
<1>7. UnmanagedInv'
  <2>1. layers'["project"] = file /\ IsFile(file)
    BY <1>0, <1>1, <1>2, FilesAre
  <2> SUFFICES ASSUME unmanaged' # "lost" PROVE UnmanagedInv'
    BY DEF UnmanagedInv
  <2>2. unmanaged' = unmanaged /\ ~(running[u].step = "write" /\ file.json \in {"empty", "garbage"})
    BY <1>1
  <2>3. \/ layers["project"].hooks = unmanaged
        \/ layers["project"].json = "empty" /\ \E v \in SettingsUsers : running[v].step = "write"
    BY <2>2 DEF SettingsInv, UnmanagedInv
  <2>4. \A v \in SettingsUsers : running'[v].step \in {"truncate", "write"} /\ ~running'[v].blind => running'[v].toWrite.hooks = unmanaged'
    BY <1>3, <1>4, <2>2 DEF SettingsInv, UnmanagedInv
  <2>5. \/ layers'["project"].hooks = unmanaged'
        \/ layers'["project"].json = "empty" /\ \E v \in SettingsUsers : running'[v].step = "write"
    <3>1. CASE file = layers["project"]
      BY <1>4, <2>1, <2>2, <2>3, <3>1
    <3>2. CASE file = Garbage /\ running[u].step = "write"
      BY <2>2, <3>2, FilesAre
    <3>3. CASE file = NoFile /\ layers["project"].json = "absent"
      BY <1>0, <2>1, <2>2, <2>3, <3>3, FilesAre DEF IsFile
    <3> QED
      BY <1>2, <3>1, <3>2, <3>3
  <2> QED
    BY <2>4, <2>5 DEF UnmanagedInv
<1> QED
  BY <1>4, <1>5, <1>6, <1>7 DEF SettingsInv

LEMMA ReadStep == ASSUME SettingsInv, NEW u \in SettingsUsers, ReadExisting(u) PROVE SettingsInv' /\ RefusedStep
<1>0. /\ DOMAIN running = SettingsUsers /\ IsProgram(running[u]) /\ running[u].step = "read" /\ IsFile(layers["project"])
      /\ UNCHANGED <<layers, changes, written, unmanaged>>
  BY DEF ReadExisting, SettingsInv, RunningInv, LayersInv
<1>1. PICK file \in {layers["project"], NoFile} :
        running' = [running EXCEPT ![u].step = "truncate", ![u].toWrite = Overlay(file, running[u].patch),
                                   ![u].blind = file # layers["project"] \/ file.json \in {"empty", "garbage"}]
  BY Zenon DEF ReadExisting
<1>2. PICK over, b : over = Overlay(file, running[u].patch) /\ b = (file # layers["project"] \/ file.json \in {"empty", "garbage"})
  OBVIOUS
<1>3. /\ IsFile(over) /\ over.json = "object" /\ Carries(over, running[u].patch)
      /\ ~b => file = layers["project"] /\ over.hooks = layers["project"].hooks /\ layers["project"].json # "empty"
  <2>1. IsFile(file)
    BY <1>0, FilesAre
  <2>2. /\ IsFile(over) /\ over.json = "object" /\ Carries(over, running[u].patch)
        /\ file.json \in {"absent", "object"} => over.hooks = file.hooks
    BY <1>2, <2>1, OverlayIs
  <2>3. ~b => file = layers["project"] /\ file.json \in {"absent", "object"}
    BY <1>2, <2>1 DEF IsFile
  <2> QED
    BY <2>2, <2>3
<1>4. PICK now : now = [running[u] EXCEPT !.step = "truncate", !.toWrite = over, !.blind = b]
  OBVIOUS
<1>5. running' = [running EXCEPT ![u] = now]
  BY <1>0, <1>1, <1>2, <1>4
<1>6. IsProgram(now) /\ now.toWrite = over /\ now.blind = b /\ now.step = "truncate"
  BY <1>0, <1>3, <1>4 DEF IsProgram, ProgramKeys
<1>7. Moved(u, now)
  BY <1>0, <1>5, <1>6 DEF Moved
<1>8. RunningInv' /\ RefusedStep /\ running'[u] = now /\ \A v \in SettingsUsers \ {u} : running'[v] = running[v]
  BY <1>7, MovedIs DEF SettingsInv
<1>9. LayersInv' /\ WrittenInv'
  BY <1>0 DEF SettingsInv, LayersInv, WrittenInv, Carries
<1>10. UnmanagedInv'
  BY <1>0, <1>3, <1>6, <1>8 DEF SettingsInv, UnmanagedInv
<1> QED
  BY <1>8, <1>9, <1>10 DEF SettingsInv

LEMMA TruncateFileStep == ASSUME SettingsInv, NEW u \in SettingsUsers, Truncate(u) PROVE SettingsInv' /\ RefusedStep
<1>0. /\ DOMAIN running = SettingsUsers /\ IsProgram(running[u]) /\ running[u].step = "truncate"
      /\ DOMAIN layers = {"user", "project", "local"} /\ UNCHANGED <<changes, unmanaged>>
      /\ layers' = [layers EXCEPT !["project"] = EmptyFile] /\ written' = Unwritten
  BY DEF Truncate, SettingsInv, RunningInv, LayersInv
<1>1. PICK now : now = [running[u] EXCEPT !.step = "write"]
  OBVIOUS
<1>2. running' = [running EXCEPT ![u] = now]
  BY <1>0, <1>1 DEF Truncate
<1>3. IsProgram(now) /\ now.step = "write" /\ now.toWrite = running[u].toWrite /\ now.blind = running[u].blind
  BY <1>0, <1>1 DEF IsProgram, ProgramKeys
<1>4. Moved(u, now)
  BY <1>0, <1>2, <1>3 DEF Moved
<1>5. RunningInv' /\ RefusedStep /\ running'[u] = now /\ \A v \in SettingsUsers \ {u} : running'[v] = running[v]
  BY <1>4, MovedIs DEF SettingsInv
<1>6. LayersInv'
  BY <1>0, FilesAre DEF SettingsInv, LayersInv
<1>7. WrittenInv'
  BY <1>0 DEF WrittenInv, Unwritten, Written, Carries
<1>8. UnmanagedInv'
  BY <1>0, <1>3, <1>5, FilesAre DEF SettingsInv, UnmanagedInv
<1> QED
  BY <1>5, <1>6, <1>7, <1>8 DEF SettingsInv

LEMMA WriteFileStep == ASSUME SettingsInv, NEW u \in SettingsUsers, WriteFile(u) PROVE SettingsInv' /\ RefusedStep
<1>0. /\ DOMAIN running = SettingsUsers /\ IsProgram(running[u]) /\ running[u].step = "write"
      /\ DOMAIN layers = {"user", "project", "local"} /\ IsFile(layers["project"]) /\ UNCHANGED changes
      /\ DOMAIN written = Written
  BY DEF WriteFile, SettingsInv, RunningInv, LayersInv, WrittenInv
<1>1. PICK file \in Lands(running[u].toWrite) :
        /\ layers' = [layers EXCEPT !["project"] = file]
        /\ written' = IF file.json = "object" THEN [k \in DOMAIN written |-> running[u].patch[k]] ELSE Unwritten
        /\ unmanaged' = IF file = Garbage \/ (running[u].blind /\ file # NoFile) THEN "lost" ELSE unmanaged
  BY Zenon DEF WriteFile
<1>2. \/ file = running[u].toWrite
      \/ file = Garbage
      \/ file = NoFile /\ layers["project"].json = "absent"
  BY <1>1 DEF Lands
<1>3. PICK now : now = [running[u] EXCEPT !.step = "idle", !.answer = "ok", !.patch = NoFile, !.toWrite = NoFile, !.blind = FALSE]
  OBVIOUS
<1>4. running' = [running EXCEPT ![u] = now]
  BY <1>0, <1>3 DEF WriteFile, Rested
<1>5. IsProgram(now) /\ now.step = "idle"
  BY <1>0, <1>3 DEF IsProgram, ProgramKeys
<1>6. Moved(u, now)
  BY <1>0, <1>4, <1>5 DEF Moved
<1>7. RunningInv' /\ RefusedStep /\ running'[u] = now /\ \A v \in SettingsUsers \ {u} : running'[v] = running[v]
  BY <1>6, MovedIs DEF SettingsInv
<1>8. IsFile(running[u].toWrite) /\ running[u].toWrite.json = "object" /\ Carries(running[u].toWrite, running[u].patch)
  BY <1>0 DEF IsProgram
<1>9. LayersInv'
  BY <1>0, <1>1, <1>2, <1>8, FilesAre DEF SettingsInv, LayersInv
<1>10. WrittenInv'
  <2>1. layers'["project"] = file /\ (file.json = "object" => file = running[u].toWrite)
    BY <1>0, <1>1, <1>2, FilesAre
  <2> QED
    BY <1>0, <1>1, <1>8, <2>1 DEF WrittenInv, Unwritten, Written, Carries
<1>11. UnmanagedInv'
  <2> SUFFICES ASSUME unmanaged' # "lost" PROVE UnmanagedInv'
    BY DEF UnmanagedInv
  <2>1. unmanaged' = unmanaged /\ file # Garbage /\ ~(running[u].blind /\ file # NoFile) /\ layers'["project"] = file
    BY <1>0, <1>1
  <2>2. \A v \in SettingsUsers : running'[v].step \in {"truncate", "write"} /\ ~running'[v].blind => running'[v].toWrite.hooks = unmanaged'
    BY <1>5, <1>7, <2>1 DEF SettingsInv, UnmanagedInv
  <2>3. file.hooks = unmanaged
    <3>1. CASE file = running[u].toWrite
      <4>1. ~running[u].blind
        BY <1>8, <2>1, <3>1, FilesAre
      <4> QED
        BY <1>0, <2>1, <3>1, <4>1 DEF SettingsInv, UnmanagedInv
    <3>2. CASE file = NoFile /\ layers["project"].json = "absent"
      BY <1>0, <2>1, <3>2, FilesAre DEF SettingsInv, UnmanagedInv, IsFile
    <3> QED
      BY <1>2, <2>1, <3>1, <3>2
  <2> QED
    BY <2>1, <2>2, <2>3 DEF UnmanagedInv
<1> QED
  BY <1>7, <1>9, <1>10, <1>11 DEF SettingsInv

(* An editor's change leaves blind who is at the project file.             *)
LEMMA EditStep == ASSUME SettingsInv, EditLayer PROVE SettingsInv' /\ RefusedStep
<1>1. PICK n \in DOMAIN layers, c \in {NoFile, Garbage, Mistyped, Object(Empty, "read-only", "lint")} :
        /\ layers' = [layers EXCEPT ![n] = c]
        /\ IF n = "project"
           THEN /\ written' = Unwritten
                /\ unmanaged' = IF c = Garbage THEN "lost" ELSE c.hooks
                /\ running' = [u \in SettingsUsers |->
                     [running[u] EXCEPT !.blind = @ \/ running[u].step \in {"truncate", "write"}]]
           ELSE UNCHANGED <<written, unmanaged, running>>
  BY Zenon DEF EditLayer
<1>2. IsFile(c)
  BY FilesAre, ObjectIs
<1>3. changes' \in 0..MaxChanges /\ DOMAIN layers = {"user", "project", "local"} /\ DOMAIN running = SettingsUsers
  BY SettingsAssumption DEF EditLayer, SettingsInv, LayersInv, RunningInv
<1>4. LayersInv'
  BY <1>1, <1>2, <1>3 DEF SettingsInv, LayersInv
<1>5. CASE n # "project"
  <2>1. UNCHANGED <<written, unmanaged, running>> /\ layers'["project"] = layers["project"]
    BY <1>1, <1>3, <1>5
  <2>2. RunningInv' /\ RefusedStep
    BY <2>1 DEF SettingsInv, RunningInv, RefusedStep
  <2>3. WrittenInv' /\ UnmanagedInv'
    BY <2>1 DEF SettingsInv, WrittenInv, Carries, UnmanagedInv
  <2> QED
    BY <1>4, <2>2, <2>3 DEF SettingsInv
<1>6. CASE n = "project"
  <2>1. /\ written' = Unwritten /\ unmanaged' = IF c = Garbage THEN "lost" ELSE c.hooks
        /\ running' = [u \in SettingsUsers |-> [running[u] EXCEPT !.blind = @ \/ running[u].step \in {"truncate", "write"}]]
    BY <1>1, <1>6
  <2>2. ASSUME NEW u \in SettingsUsers
        PROVE  /\ IsProgram(running'[u]) /\ running'[u].answer = running[u].answer
               /\ running'[u].step \in {"truncate", "write"} => running'[u].blind
    <3>1. IsProgram(running[u])
      BY DEF SettingsInv, RunningInv
    <3>2. PICK b : b = (running[u].blind \/ running[u].step \in {"truncate", "write"})
      OBVIOUS
    <3>3. running'[u] = [running[u] EXCEPT !.blind = b]
      BY <2>1, <3>1, <3>2 DEF IsProgram, ProgramKeys
    <3>4. PICK now : now = [running[u] EXCEPT !.blind = b]
      OBVIOUS
    <3>5. IsProgram(now) /\ now.answer = running[u].answer /\ now.step = running[u].step /\ now.blind = b
      BY <3>1, <3>4 DEF IsProgram, ProgramKeys
    <3> QED
      BY <3>2, <3>3, <3>4, <3>5
  <2>3. RunningInv'
    BY <2>1, <2>2 DEF RunningInv
  <2>4. RefusedStep
    BY <2>2 DEF RefusedStep
  <2>5. WrittenInv'
    BY <2>1 DEF WrittenInv, Unwritten, Written, Carries
  <2>6. layers'["project"] = c
    BY <1>1, <1>3, <1>6
  <2>7. UnmanagedInv'
    BY <2>1, <2>2, <2>6 DEF UnmanagedInv
  <2> QED
    BY <1>4, <2>3, <2>4, <2>5, <2>7 DEF SettingsInv
<1> QED
  BY <1>5, <1>6

LEMMA SettingsStep == ASSUME SettingsInv, SettingsNext PROVE SettingsInv' /\ RefusedStep
BY ProgramStep, FeaturesStep, CommandStep, GiveUpStep, ReadStep, TruncateFileStep, WriteFileStep, EditStep, Zenon DEF SettingsNext

LEMMA SettingsRest == ASSUME SettingsInv, UNCHANGED settingsVars PROVE SettingsInv'
<1> USE DEF settingsVars
<1>1. RunningInv' /\ LayersInv' /\ WrittenInv'
  BY DEF SettingsInv, RunningInv, LayersInv, WrittenInv, Carries
<1>2. UnmanagedInv'
  BY DEF SettingsInv, UnmanagedInv
<1> QED
  BY <1>1, <1>2 DEF SettingsInv

(* What is loaded of a key is what the most local file says of it.         *)
LEMMA LoadedIs ==
  ASSUME DOMAIN layers = {"user", "project", "local"}, NEW key \in Written
  PROVE  /\ LoadForDir[key] = MostLocal(key)
         /\ LoadForDir[key] =
              IF Loads(layers["local"]) /\ layers["local"][key] # Empty THEN layers["local"][key]
              ELSE IF Loads(layers["project"]) /\ layers["project"][key] # Empty THEN layers["project"][key]
              ELSE IF Loads(layers["user"]) /\ layers["user"][key] # Empty THEN layers["user"][key] ELSE Empty
<1> DEFINE Says(n) == Loads(layers[n]) /\ layers[n][key] # Empty
           first == [k \in Keys |-> Empty]
           second == Layered(first, layers["user"])
           third == Layered(second, layers["project"])
<1>0. key \in Keys
  BY DEF Written, Keys
<1>1. ASSUME NEW f, NEW file PROVE Layered(f, file)[key] = IF Loads(file) /\ file[key] # Empty THEN file[key] ELSE f[key]
  BY <1>0 DEF Layered, Merge
<1>2. LoadForDir = Layered(third, layers["local"])
  BY DEF LoadForDir
<1>3. first[key] = Empty
  BY <1>0
<1> HIDE DEF first
<1>4. second[key] = IF Says("user") THEN layers["user"][key] ELSE Empty
  BY <1>1, <1>3
<1> HIDE DEF second
<1>5. third[key] = IF Says("project") THEN layers["project"][key] ELSE second[key]
  BY <1>1
<1> HIDE DEF third
<1>6. LoadForDir[key] = IF Says("local") THEN layers["local"][key] ELSE third[key]
  BY <1>1, <1>2
<1>7. LayerNames[1] = "user" /\ LayerNames[2] = "project" /\ LayerNames[3] = "local"
  BY DEF LayerNames
<1> HIDE DEF Says
<1>8. MostLocal(key) = LoadForDir[key]
  <2> DEFINE says == {i \in 1..3 : Says(LayerNames[i])}
             top == CHOOSE i \in says : \A j \in says : j <= i
  <2>1. MostLocal(key) = IF says = {} THEN Empty ELSE layers[LayerNames[top]][key]
    BY DEF MostLocal, Says
  <2>2. says \subseteq 1..3 /\ (1 \in says <=> Says("user")) /\ (2 \in says <=> Says("project")) /\ (3 \in says <=> Says("local"))
    BY <1>7
  <2> HIDE DEF says, top
  <2>3. ASSUME NEW i \in says, \A j \in says : j <= i PROVE top = i
    <3>1. top \in says /\ \A j \in says : j <= top
      BY <2>3, Zenon DEF top
    <3> QED
      BY <2>2, <2>3, <3>1
  <2>4. CASE Says("local")
    <3>1. top = 3
      BY <2>2, <2>3, <2>4
    <3> QED
      BY <1>6, <1>7, <2>1, <2>2, <2>4, <3>1
  <2>5. CASE ~Says("local") /\ Says("project")
    <3>1. top = 2
      BY <2>2, <2>3, <2>5
    <3> QED
      BY <1>5, <1>6, <1>7, <2>1, <2>2, <2>5, <3>1
  <2>6. CASE ~Says("local") /\ ~Says("project") /\ Says("user")
    <3>1. top = 1
      BY <2>2, <2>3, <2>6
    <3> QED
      BY <1>4, <1>5, <1>6, <1>7, <2>1, <2>2, <2>6, <3>1
  <2>7. CASE ~Says("local") /\ ~Says("project") /\ ~Says("user")
    <3>1. says = {}
      BY <2>2, <2>7
    <3> QED
      BY <1>4, <1>5, <1>6, <2>1, <2>7, <3>1
  <2> QED
    BY <2>4, <2>5, <2>6, <2>7
<1> QED
  BY <1>4, <1>5, <1>6, <1>8 DEF Says

LEMMA SettingsAreSound == SettingsInv => SettingsTypeOK /\ WrittenIsUsed /\ ModesAgree /\ UnmanagedStay
<1> SUFFICES ASSUME SettingsInv PROVE SettingsTypeOK /\ WrittenIsUsed /\ ModesAgree /\ UnmanagedStay
  OBVIOUS
<1>1. SettingsTypeOK
  BY SettingsAssumption DEF SettingsInv, RunningInv, LayersInv, IsProgram, IsFile, Modes, SettingsTypeOK
<1>2. WrittenIsUsed
  <2>1. /\ DOMAIN written = Written /\ DOMAIN layers = {"user", "project", "local"}
        /\ \A key \in Written : written[key] # Empty => layers["project"][key] = written[key]
    BY DEF SettingsInv, LayersInv, WrittenInv, Carries
  <2>2. \A key \in Written : LoadForDir[key] = MostLocal(key)
    BY <2>1, LoadedIs
  <2>3. ASSUME NEW key \in Written, Decides(key) PROVE LoadForDir[key] = written[key] /\ written[key] # Empty
    BY <2>1, <2>3, LoadedIs DEF Decides
  <2>4. Decides("model") /\ envModel = Empty => LoadedModel(Empty) = written["model"]
    <3>1. PICK m : m = LoadForDir["model"]
      OBVIOUS
    <3>2. envModel = Empty /\ m # Empty => LoadedModel(Empty) = m
      BY <3>1, Zenon DEF LoadedModel
    <3> QED
      BY <2>3, <3>1, <3>2 DEF Written
  <2>5. Decides("permissionMode") => BootMode(ResolvedMode("default", FALSE)) = BootMode(written["permissionMode"])
    <3>1. PICK p : p = LoadForDir["permissionMode"]
      OBVIOUS
    <3>2. p # Empty => ResolvedMode("default", FALSE) = p
      BY <3>1, Zenon DEF ResolvedMode
    <3> QED
      BY <2>3, <3>1, <3>2 DEF Written
  <2> QED
    BY <2>1, <2>2, <2>4, <2>5 DEF WrittenIsUsed
<1>3. ModesAgree
  BY DEF SettingsInv, RunningInv, IsProgram, ModesAgree
<1>4. UnmanagedStay
  BY DEF SettingsInv, UnmanagedInv, UnmanagedStay
<1> QED
  BY <1>1, <1>2, <1>3, <1>4

-----------------------------------------------------------------------------
(* What is said of a settings file.                                         *)
LEMMA FieldsAre ==
  /\ DOMAIN ProgramFields = {"model", "permissionMode", "theme", "maxTokens", "allowedTools", "blockedTools", "hooks", "enabledPlugins"}
  /\ \A key \in DOMAIN ProgramFields : key \in DOMAIN TopLevelFields /\ TopLevelFields[key] = ProgramFields[key]
  /\ ProgramFields["hooks"] = "object" /\ DOMAIN NestedFields = {"hooks", "permissions"}
  /\ DOMAIN NestedFields \cup {"mcpServers"} \subseteq DOMAIN TopLevelFields
BY DEF ProgramFields, TopLevelFields, NestedFields

(* A key that a program has just decoded is never called mistyped, and one *)
(* the validator does not know changes nothing in what it says of the      *)
(* others, whatever the file holds (loader.go:83-105, validate.go:163-280). *)
THEOREM AdviceFitsEveryFile ==
  ASSUME NEW raw
  PROVE  /\ Decodes(raw) => \A d \in ValidateSettingsJSON(raw).errors : d.kind = "wrong_type" => d.field[1] \notin DOMAIN ProgramFields
         /\ \A key \in DOMAIN raw \ (DOMAIN TopLevelFields \cup DeprecatedFields) :
              ValidateSettingsJSON(raw).errors =
                ValidateSettingsJSON(Restrict(raw, DOMAIN raw \ {key})).errors \cup {Diag(<<key>>, "unknown_key")}
<1> DEFINE Unknown(file) == ValidateObjectKeys(file, DOMAIN TopLevelFields, <<>>)
           NestedOf(file) == UNION {NestedErrors(key, file[key]) : key \in DOMAIN file \cap DOMAIN NestedFields}
           ServersOf(file) == IF "mcpServers" \in DOMAIN file THEN ServerErrors(file["mcpServers"].in) ELSE {}
           TypesOf(file) == {Diag(<<key>>, "wrong_type") : key \in {k \in DOMAIN file \cap DOMAIN TopLevelFields : ~TypeFits(k, file[k])}}
<1>1. ASSUME NEW file
      PROVE  ValidateSettingsJSON(file).errors = Unknown(file) \cup NestedOf(file) \cup ServersOf(file) \cup TypesOf(file)
  BY DEF ValidateSettingsJSON
<1>2. ASSUME NEW obj, NEW known, NEW prefix, NEW d \in ValidateObjectKeys(obj, known, prefix) PROVE d.kind = "unknown_key"
  BY DEF ValidateObjectKeys, Diag
<1> HIDE DEF Unknown, NestedOf, ServersOf, TypesOf
<1>3. ASSUME Decodes(raw), NEW d \in ValidateSettingsJSON(raw).errors, d.kind = "wrong_type" PROVE d.field[1] \notin DOMAIN ProgramFields
  <2>0. \A key \in DOMAIN raw \cap DOMAIN ProgramFields : raw[key].type \in {ProgramFields[key], "null"}
    BY <1>3, Zenon DEF Decodes
  <2>1. CASE d \in Unknown(raw)
    BY <1>2, <1>3, <2>1 DEF Unknown
  <2>2. CASE d \in NestedOf(raw)
    <3>1. PICK key \in DOMAIN raw \cap DOMAIN NestedFields : d \in NestedErrors(key, raw[key])
      BY <2>2 DEF NestedOf
    <3>2. raw[key].type \notin {"object", "null"} /\ d = Diag(<<key>>, "wrong_type")
      <4>1. CASE raw[key].type \in {"object", "null"}
        BY <1>2, <1>3, <3>1, <4>1 DEF NestedErrors
      <4>2. CASE raw[key].type \notin {"object", "null"}
        BY <3>1, <4>2 DEF NestedErrors
      <4> QED
        BY <4>1, <4>2
    <3>3. d.field[1] = key
      BY <3>2 DEF Diag
    <3>4. key # "hooks"
      BY <2>0, <3>1, <3>2, FieldsAre
    <3>5. key = "permissions"
      BY <3>1, <3>4, FieldsAre
    <3> QED
      BY <3>3, <3>5, FieldsAre
  <2>3. CASE d \in ServersOf(raw)
    <3>1. d \in ServerErrors(raw["mcpServers"].in)
      BY <2>3 DEF ServersOf
    <3>2. PICK s : d \in ValidateObjectKeys(raw["mcpServers"].in[s].in, McpServerEntryFields, <<"mcpServers", s>>)
      BY <3>1 DEF ServerErrors
    <3> QED
      BY <1>2, <1>3, <3>2
  <2>4. CASE d \in TypesOf(raw)
    <3>1. PICK key \in DOMAIN raw \cap DOMAIN TopLevelFields : ~TypeFits(key, raw[key]) /\ d = Diag(<<key>>, "wrong_type")
      BY <2>4 DEF TypesOf
    <3>2. d.field[1] = key
      BY <3>1 DEF Diag
    <3> QED
      BY <2>0, <3>1, <3>2, FieldsAre DEF TypeFits
  <2> QED
    BY <1>1, <1>3, <2>1, <2>2, <2>3, <2>4
<1>4. ASSUME NEW key \in DOMAIN raw \ (DOMAIN TopLevelFields \cup DeprecatedFields)
      PROVE  ValidateSettingsJSON(raw).errors =
               ValidateSettingsJSON(Restrict(raw, DOMAIN raw \ {key})).errors \cup {Diag(<<key>>, "unknown_key")}
  <2>1. PICK rest : rest = Restrict(raw, DOMAIN raw \ {key})
    OBVIOUS
  <2>2. DOMAIN rest = DOMAIN raw \ {key} /\ \A k \in DOMAIN rest : rest[k] = raw[k]
    BY <2>1 DEF Restrict
  <2>3. DOMAIN rest \cap DOMAIN TopLevelFields = DOMAIN raw \cap DOMAIN TopLevelFields
        /\ DOMAIN rest \cap DOMAIN NestedFields = DOMAIN raw \cap DOMAIN NestedFields
        /\ ("mcpServers" \in DOMAIN rest <=> "mcpServers" \in DOMAIN raw)
    BY <1>4, <2>2, FieldsAre
  <2>4. NestedOf(rest) = NestedOf(raw)
    BY <2>2, <2>3 DEF NestedOf
  <2>5. ServersOf(rest) = ServersOf(raw)
    BY <2>2, <2>3 DEF ServersOf
  <2>6. TypesOf(rest) = TypesOf(raw)
    <3>1. {k \in DOMAIN rest \cap DOMAIN TopLevelFields : ~TypeFits(k, rest[k])} = {k \in DOMAIN raw \cap DOMAIN TopLevelFields : ~TypeFits(k, raw[k])}
      BY <2>2, <2>3
    <3> QED
      BY <3>1, Zenon DEF TypesOf
  <2>7. Unknown(raw) = Unknown(rest) \cup {Diag(<<key>>, "unknown_key")}
    <3>1. \A file : Unknown(file) = {Diag(Append(<<>>, k), "unknown_key") : k \in (DOMAIN file \ DOMAIN TopLevelFields) \ DeprecatedFields}
      BY Zenon DEF Unknown, ValidateObjectKeys
    <3>2. Append(<<>>, key) = <<key>>
      OBVIOUS
    <3>3. (DOMAIN raw \ DOMAIN TopLevelFields) \ DeprecatedFields = ((DOMAIN rest \ DOMAIN TopLevelFields) \ DeprecatedFields) \cup {key}
      BY <1>4, <2>2
    <3> QED
      BY <3>1, <3>2, <3>3, Zenon
  <2> QED
    BY <1>1, <2>1, <2>4, <2>5, <2>6, <2>7
<1> QED
  BY <1>3, <1>4

-----------------------------------------------------------------------------
(* The parts beside each other: each invariant holds while another part is *)
(* at work, which leaves its variables alone.                              *)
ConnectionsInv ==
  BrokerInv /\ CredInv /\ InstallInv /\ ManagerInv /\ DownInv /\ RegistryInv /\ LifecycleInv /\ SettingsInv

LEMMA BrokerRests == ASSUME BrokerInv, UNCHANGED oauthVars PROVE BrokerInv'
<1> USE DEF oauthVars
<1>1. BrokerTypes' /\ LockInv' /\ DiskInv'
  BY DEF BrokerInv, BrokerTypes, LockInv, DiskInv, Numbers
<1>2. HolderInv' /\ RevokedInv'
  BY DEF BrokerInv, HolderInv, AtWork, Numbers, RevokedInv, TakenBack
<1>3. KeptInv'
  BY DEF BrokerInv, KeptInv, Kept, Writing
<1> QED
  BY <1>1, <1>2, <1>3 DEF BrokerInv

LEMMA CredRests == ASSUME CredInv, UNCHANGED credVars PROVE CredInv'
<1> USE DEF credVars
<1>1. CredTypes' /\ FitsInv' /\ PlansInv'
  BY DEF CredInv, CredTypes, FitsInv, Fits, PlansInv, Planned, Saving, secretVars
<1>2. KeyInv' /\ NewInv'
  BY DEF CredInv, KeyInv, HasKey, Readable, Holding, NewInv, OnlyWith, Saving, secretVars
<1>3. RenewInv'
  BY DEF CredInv, RenewInv, Readable, Holding, Alive, Saving, secretVars
<1> QED
  BY <1>1, <1>2, <1>3 DEF CredInv

LEMMA InstallRests == ASSUME InstallInv, UNCHANGED installerVars PROVE InstallInv'
<1> USE DEF installerVars
<1>1. InstallTypes' /\ OwnInv'
  BY DEF InstallInv, InstallTypes, OwnInv, OwnJob
<1>2. AsideInv' /\ AloneInv' /\ ReadInv'
  BY DEF InstallInv, AsideInv, HasAside, AloneInv, Alone, ReadInv
<1>3. ListInv' /\ OnlyProvenInstalled' /\ OneCopyRemains'
  BY DEF InstallInv, ListInv, Late, OnlyProvenInstalled, OneCopyRemains
<1> QED
  BY <1>1, <1>2, <1>3 DEF InstallInv

LEMMA ManagerRests == ASSUME ManagerInv, UNCHANGED pluginVars PROVE ManagerInv'
<1> USE DEF pluginVars
<1>1. ManagerTypes' /\ AtInv'
  BY DEF ManagerInv, ManagerTypes, AtInv
<1>2. RecordInv' /\ ChoiceInv'
  BY DEF ManagerInv, RecordInv, InHand, RecordOf, ChoiceInv
<1> QED
  BY <1>1, <1>2 DEF ManagerInv

LEMMA DownRests == ASSUME DownInv, UNCHANGED pluginVars PROVE DownInv'
BY DEF DownInv, pluginVars

LEMMA RegistryRests == ASSUME RegistryInv, UNCHANGED registryVars PROVE RegistryInv'
<1> USE DEF registryVars
<1>1. RegistryTypes' /\ ServersInv' /\ HeardInv'
  BY DEF RegistryInv, RegistryTypes, ServersInv, HeardInv
<1>2. CallsInv' /\ KnownInv'
  BY DEF RegistryInv, CallsInv, KnownInv
<1> QED
  BY <1>1, <1>2 DEF RegistryInv

LEMMA LifecycleRests == ASSUME LifecycleInv, UNCHANGED lifecycleVars PROVE LifecycleInv'
<1> USE DEF lifecycleVars
<1>1. \A p : Ran(p)' = Ran(p)
  BY DEF Ran
<1>2. LifecycleTypes' /\ SurfacedInv' /\ LastInv'
  BY DEF LifecycleInv, LifecycleTypes, SurfacedInv, LastInv
<1>3. StartInv' /\ EndsInv'
  BY <1>1 DEF LifecycleInv, StartInv, EndsInv
<1> QED
  BY <1>2, <1>3 DEF LifecycleInv

LEMMA ConnectionsInitInv == ConnectionsInit => ConnectionsInv
<1>1. PluginsInit => DownInv
  BY DEF PluginsInit, DownInv
<1> QED
  BY <1>1, BrokerInitInv, CredInitInv, InstallInitInv, ManagerInitInv, RegistryInitInv, LifecycleInitInv, SettingsInitInv,
     Zenon DEF ConnectionsInit, ConnectionsInv

(* Of each part: it makes one of its steps, or none.                       *)
LEMMA OnePartWorks ==
  ASSUME ConnectionsNext
  PROVE  /\ OAuthNext \/ UNCHANGED oauthVars
         /\ CredentialsNext \/ UNCHANGED credVars
         /\ InstallerNext \/ UNCHANGED installerVars
         /\ PluginsNext \/ UNCHANGED pluginVars
         /\ RegistryNext \/ UNCHANGED registryVars
         /\ LifecycleNext \/ UNCHANGED lifecycleVars
         /\ SettingsNext \/ UNCHANGED settingsVars
BY Zenon DEF ConnectionsNext

LEMMA ConnectionsStep == ASSUME ConnectionsInv, [ConnectionsNext]_connectionVars PROVE ConnectionsInv'
<1>1. CASE ConnectionsNext
  <2>1. BrokerInv'
    BY <1>1, OnePartWorks, BrokerNextInv, BrokerRests DEF ConnectionsInv
  <2>2. CredInv'
    BY <1>1, OnePartWorks, CredNextInv, CredRests DEF ConnectionsInv
  <2>3. InstallInv'
    BY <1>1, OnePartWorks, InstallNextInv, InstallRests DEF ConnectionsInv
  <2>4. ManagerInv'
    BY <1>1, OnePartWorks, ManagerNextInv, ManagerRests DEF ConnectionsInv
  <2>5. DownInv'
    BY <1>1, OnePartWorks, DownHolds, DownRests DEF ConnectionsInv
  <2>6. RegistryInv'
    BY <1>1, OnePartWorks, RegistryNextInv, RegistryRests DEF ConnectionsInv
  <2>7. LifecycleInv'
    BY <1>1, OnePartWorks, LifecycleNextInv, LifecycleRests DEF ConnectionsInv
  <2>8. SettingsInv'
    BY <1>1, OnePartWorks, SettingsStep, SettingsRest DEF ConnectionsInv
  <2> QED
    BY <2>1, <2>2, <2>3, <2>4, <2>5, <2>6, <2>7, <2>8 DEF ConnectionsInv
<1>2. CASE UNCHANGED connectionVars
  <2>1. /\ UNCHANGED oauthVars /\ UNCHANGED credVars /\ UNCHANGED installerVars /\ UNCHANGED pluginVars
        /\ UNCHANGED registryVars /\ UNCHANGED lifecycleVars /\ UNCHANGED settingsVars
    BY <1>2, Zenon DEF connectionVars, partVars
  <2> QED
    BY <2>1, BrokerRests, CredRests, InstallRests, ManagerRests, DownRests, RegistryRests, LifecycleRests, SettingsRest
       DEF ConnectionsInv
<1> QED
  BY <1>1, <1>2

(* The token file has what the authorization server takes, a key that was  *)
(* entered stays, and a refresh token is in the file while the endpoint    *)
(* takes it - but for answers that got lost, writes that failed or stopped, *)
(* and entries of programs whose writes met (internal/mcp/oauth,           *)
(* internal/auth).                                                         *)
THEOREM SecretsAreKept == ConnectionsSpec => []SecretsSurvive
<1>1. ConnectionsInv => SecretsSurvive
  BY BrokerKeeps, CredentialsKeep DEF ConnectionsInv, SecretsSurvive
<1> QED
  BY <1>1, ConnectionsInitInv, ConnectionsStep, PTL DEF ConnectionsSpec

(* Only what is proven is installed and one copy remains, wherever a step  *)
(* failed, the process ended or two installers met; and what is recorded,  *)
(* chosen and listed is what is there, but for the plugin whose last       *)
(* operation stopped half way or met another, for settings whose write     *)
(* failed, and for a registry that was torn (plugin, internal/plugins).    *)
THEOREM PluginsAreKept == ConnectionsSpec => []PluginsSurvive
<1>1. ConnectionsInv => PluginsSurvive
  BY ManagerKeeps, InstallerKeeps DEF ConnectionsInv, PluginsSurvive
<1> QED
  BY <1>1, ConnectionsInitInv, ConnectionsStep, PTL DEF ConnectionsSpec

(* The variables keep their types.                                         *)
LEMMA TypesHold == ConnectionsInv => ConnectionsTypeOK
<1> SUFFICES ASSUME ConnectionsInv PROVE ConnectionsTypeOK
  OBVIOUS
<1>1. OAuthTypeOK
  <2>1. BrokerTypes
    BY DEF ConnectionsInv, BrokerInv
  <2>2. \A c \in Callers : op[c] \in Ops
    BY <2>1 DEF BrokerTypes
  <2> QED
    BY <2>1, <2>2 DEF BrokerTypes, Ops, Working, OAuthTypeOK
<1>2. CredentialsTypeOK
  <2>1. CredTypes
    BY DEF ConnectionsInv, CredInv
  <2>2. (\A p \in Programs : prog[p] \in Progs) /\ GoodCreds \subseteq Creds
    BY <2>1 DEF CredTypes, GoodCreds
  <2>3. store.active \in Providers \cup {"none", "truncated", "torn"} /\ store.creds \in [Providers -> GoodCreds]
    BY <2>1 DEF CredTypes, Stores
  <2>4. store.creds \in [Providers -> Creds] /\ legacy \in Creds /\ unexpired \subseteq 1..secrets /\ renewable \subseteq 1..secrets
    BY <2>1, <2>2, <2>3 DEF CredTypes
  <2>5. \A p \in Programs :
          /\ prog[p].at \in {"off", "resolve", "refresh", "load", "open", "write", "flow", "save_legacy", "ready"}
          /\ prog[p].target \in Providers \cup {"none"} /\ prog[p].cred \in Creds
          /\ prog[p].uses \in {NoSession} \cup [provider : Providers, key : 1..MaxSecrets]
    BY <2>2 DEF Progs, ProgSteps, Sessions
  <2>6. clashed \subseteq Providers
    BY <2>1 DEF CredTypes
  <2> QED
    BY <2>3, <2>4, <2>5, <2>6 DEF CredentialsTypeOK
<1>3. InstallerTypeOK
  <2>1. InstallTypes
    BY DEF ConnectionsInv, InstallInv
  <2>2. \A i \in Installers : job[i] \in Jobs
    BY <2>1 DEF InstallTypes
  <2> QED
    BY <2>1, <2>2 DEF InstallTypes, Jobs, JobSteps, RowTypes, InstallerTypeOK
<1>4. PluginsTypeOK
  <2>1. ManagerTypes /\ DownInv
    BY DEF ConnectionsInv, ManagerInv
  <2>2. /\ manager.records \in [PluginIds -> Records] /\ manager.enabled \in Settings
        /\ manager.at \in {"idle", "remove", "copy", "record", "save", "enable"}
    BY <2>1 DEF ManagerTypes, Managers, RecordMaps
  <2>3. registryFile \in {<<Torn>>} \cup ({"ok"} \X [PluginIds -> Records])
    BY <2>1 DEF ManagerTypes, RecordMaps, File
  <2>4. settingsFile \in {<<Torn>>} \cup ({"ok"} \X Settings)
    BY <2>1 DEF ManagerTypes, File
  <2> QED
    BY <2>1, <2>2, <2>3, <2>4 DEF ManagerTypes, DownInv, PluginsTypeOK
<1> QED
  BY <1>1, <1>2, <1>3, <1>4, RegistryKeeps, LifecycleKeeps, SettingsAreSound DEF ConnectionsInv, ConnectionsTypeOK

(* A server that is used is one that may be, after its handshake or after  *)
(* an error it could recover from; its phases ran in order; and a process  *)
(* that runs is registered, being connected, or one whose handshake failed *)
(* in MCPConnect, which nobody closes (internal/mcp).                      *)
THEOREM ServersAreSound == ConnectionsSpec => []ServersAreUsable
<1>1. ConnectionsInv => ServersAreUsable
  BY TypesHold, RegistryKeeps, LifecycleKeeps DEF ConnectionsInv, ServersAreUsable
<1> QED
  BY <1>1, ConnectionsInitInv, ConnectionsStep, PTL DEF ConnectionsSpec

(* What was written into the settings is what the next start takes; the     *)
(* hooks of the file stay in it through programs that read, empty and write *)
(* it in any order, but for writes that fail, stop, meet another's text or  *)
(* had nothing read; and a program shows the mode it decides by until       *)
(* /config changes what it shows (internal/config/loader.go, runtime/       *)
(* config.go, loop_config.go).                                              *)
THEOREM SettingsAreKept == ConnectionsSpec => []SettingsHold
<1>1. ConnectionsInv => SettingsHold
  BY SettingsAreSound DEF ConnectionsInv, SettingsHold
<1> QED
  BY <1>1, ConnectionsInitInv, ConnectionsStep, PTL DEF ConnectionsSpec

(* What no step does: give the name of a tool to another server, hand out  *)
(* a token that does not fit, lose the old plugin for a new one that       *)
(* failed and met no other, change something by a command that is refused  *)
(* (registry.go:55-80, broker.go:137-303, installer.go:98-124,             *)
(* loop_config.go).                                                        *)
THEOREM StepsKeepSafe == ConnectionsSpec => StepsAreSafe
<1>1. ASSUME ConnectionsInv, [ConnectionsNext]_connectionVars
      PROVE  /\ [ToolsKeepStep]_registryVars /\ [TokensFitStep]_oauthVars
             /\ [FailureStep]_installerVars /\ [RefusedStep]_settingsVars
  <2>1. CASE ConnectionsNext
    BY <2>1, <1>1, OnePartWorks, ToolsKeepHolds, TokensFitHolds, FailureHolds, SettingsStep, Zenon DEF ConnectionsInv
  <2>2. CASE UNCHANGED connectionVars
    BY <2>2, Zenon DEF connectionVars, partVars
  <2> QED
    BY <1>1, <2>1, <2>2
<1>2. [ToolsKeepStep]_registryVars =>
        [\A t \in AllToolNames : FindTool(t) \in ToSet(servers') => FindTool(t)' = FindTool(t)]_registryVars
  BY Zenon DEF ToolsKeepStep
<1>3. [TokensFitStep]_oauthVars =>
        [\A c \in Callers :
           op'[c].result = "token" /\ op[c].result = "none" =>
             /\ op'[c].token.site = op[c].site
             /\ op'[c].token.access \notin TakenBack
             /\ op[c].at = "load" => op'[c].token.access \in fresh]_oauthVars
  BY Zenon DEF TokensFitStep
<1>4. [FailureStep]_installerVars =>
        [\A i \in Installers :
           job[i].op = "install" /\ job[i].at \in {"get", "download", "verify", "extract", "set_aside", "swap"}
           /\ job'[i].op = "failed" /\ i \notin met =>
             LET n == job[i].name IN
             \/ target'[n] = job[i].before
             \/ job[i].at = "swap" /\ target'[n] = Nothing /\ backup'[n] = job[i].before]_installerVars
  BY Zenon DEF FailureStep
<1>5. [RefusedStep]_settingsVars =>
        [\A u \in SettingsUsers :
           running[u].step = "idle" /\ running'[u].answer = "error" /\ running[u].answer # "error"
             => running'[u] = Refused(running[u])]_settingsVars
  BY Zenon DEF RefusedStep
<1> QED
  BY <1>1, <1>2, <1>3, <1>4, <1>5, ConnectionsInitInv, ConnectionsStep, PTL
     DEF ConnectionsSpec, StepsAreSafe, ToolsKeepTheirServer, TokensFit, FailureKeepsTheOld, RefusedChangesNothing
=============================================================================
