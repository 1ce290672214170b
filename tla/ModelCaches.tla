---------------------------- MODULE ModelCaches ----------------------------
(* What the client keeps of the models (internal/apikit), in two parts that    *)
(* share nothing: the model registry (model_registry.go), and at the end the   *)
(* prompt cache of a session (prompt_cache.go).                                *)
(*                                                                             *)
(* The registry is refreshed from the network (model_registry_live.go): the    *)
(* first lookup of a process, and each one after a day, starts a goroutine     *)
(* that merges the cache on disk and, when that is a day old, fetches, saves   *)
(* and merges.  Processes share the cache on disk.                             *)
EXTENDS Integers, Sequences, FiniteSets

CONSTANTS
  Curated,        \* model names the program was built with
  Upstream,       \* model names only the network knows
  Aliases,        \* the words a model is looked up by, in lower case
  Lower,          \* each name's own word
  CuratedAlias,   \* the model a word stood for in the program as it was built, or Unset
  LiveTTL,        \* LiveCacheTTL, in ticks of the clock
  MaxClock        \* bound on the clock

VARIABLES
  clock,
  disk,           \* models-cache.json: when it was fetched and its entries, or NoCache
  refresh,        \* how far the goroutine of the refresh is
  fetched,        \* what it holds, to save and to merge
  last,           \* liveFetchLast, 0 when zero
  models,         \* reg.models: each name's context window, or Unknown
  aliases,        \* reg.aliases
  merged          \* when the newest data merged into the registry was fetched, or 0

registryVars == <<clock, disk, refresh, fetched, last, models, aliases, merged>>

Names == Curated \cup Upstream
Unknown == -1
Unset == "unset"
Windows == {0, 2}
NoCache == [at |-> 0, entries |-> {}]
Entries == [name : Names, window : Windows, alias : Aliases]
(* What a fetch that succeeds may bring; one model is enough here.             *)
Fetchable == {s \in SUBSET Entries : Cardinality(s) = 1}

ASSUME RegistryAssumption ==
  /\ LiveTTL \in Nat \ {0} /\ MaxClock \in Nat \ {0}
  /\ Unset \notin Names /\ Lower \in [Names -> Aliases] /\ CuratedAlias \in [Aliases -> Curated \cup {Unset}]

RegistryTypeOK ==
  /\ clock \in 1..MaxClock /\ disk.at \in 0..MaxClock
  /\ refresh \in {"none", "load", "fetch", "save", "merge"}
  /\ last \in 0..MaxClock /\ merged \in 0..MaxClock
  /\ models \in [Names -> {Unknown, 0, 1, 2}]
  /\ aliases \in [Aliases -> Names \cup {Unset}]

(* ensureInit: the curated entries, their aliases and their names.             *)
RegistryInit ==
  /\ clock = 1 /\ disk = NoCache /\ refresh = "none"
  /\ fetched = NoCache /\ last = 0
  /\ models = [n \in Names |-> IF n \in Curated THEN 1 ELSE Unknown]
  /\ aliases = CuratedAlias /\ merged = 0

-----------------------------------------------------------------------------
(* A tick is a part of a day; a refresh takes seconds (its fetch is given 15). *)
Tick ==
  /\ refresh = "none"
  /\ clock < MaxClock /\ clock' = clock + 1
  /\ UNCHANGED <<disk, refresh, fetched, last, models, aliases, merged>>

(* MaybeRefreshLive, at every use of the registry.                             *)
Due == refresh = "none" /\ (last = 0 \/ clock - last >= LiveTTL)
UseRegistry ==
  /\ Due /\ refresh' = "load"
  /\ UNCHANGED <<clock, disk, fetched, last, models, aliases, merged>>

(* mergeLiveIntoRegistry: limits that are given replace those there are; a new *)
(* model takes the word of its name, whatever it stood for, and of the aliases *)
(* those that are free.                                                        *)
Window(e, old) == IF old = Unknown \/ e.window > 0 THEN e.window ELSE old
MutAlias(e, old) == e.name
Alias(e, old) == IF old = Unset THEN e.name ELSE old
Merge(cache) ==
  LET about(n) == {e \in cache.entries : e.name = n}
      calling(a) == {e \in cache.entries : e.alias = a}
      added(a) == {n \in Names : about(n) # {} /\ models[n] = Unknown /\ Lower[n] = a}
  IN /\ models' = [n \in Names |-> IF about(n) = {} THEN models[n]
                                 ELSE Window(CHOOSE e \in about(n) : TRUE, models[n])]
     /\ aliases' = [a \in Aliases |-> IF added(a) # {} THEN CHOOSE n \in added(a) : TRUE
                                    ELSE IF calling(a) = {} THEN aliases[a]
                                    ELSE Alias(CHOOSE e \in calling(a) : TRUE, aliases[a])]
     /\ merged' = IF cache.at > merged THEN cache.at ELSE merged

Ends(succeeded) ==
  /\ refresh' = "none"
  /\ last' = IF succeeded THEN clock ELSE last

(* The goroutine: the cache on disk, which is all when it is fresh.            *)
LoadsCache ==
  /\ refresh = "load"
  /\ IF disk = NoCache THEN UNCHANGED <<models, aliases, merged>> ELSE Merge(disk)
  /\ IF disk # NoCache /\ clock - disk.at < LiveTTL THEN Ends(TRUE)
     ELSE refresh' = "fetch" /\ UNCHANGED last
  /\ UNCHANGED <<clock, disk, fetched>>

(* fetchLive: from two sources; an error only when neither had a model.        *)
MutOnFailure == TRUE
OnFailure == FALSE
Fetches ==
  /\ refresh = "fetch"
  /\ \/ \E s \in Fetchable :
          /\ fetched' = [at |-> clock, entries |-> s]
          /\ refresh' = "save" /\ UNCHANGED last
     \/ Ends(OnFailure) /\ UNCHANGED fetched
  /\ UNCHANGED <<clock, disk, models, aliases, merged>>

(* saveLiveCache, whose error is dropped, and the merge.                       *)
Saves ==
  /\ refresh = "save" /\ refresh' = "merge"
  /\ disk' = fetched \/ UNCHANGED disk
  /\ UNCHANGED <<clock, fetched, last, models, aliases, merged>>
MergesFetched ==
  /\ refresh = "merge" /\ Merge(fetched) /\ Ends(TRUE)
  /\ fetched' = NoCache /\ UNCHANGED <<clock, disk>>

(* Another program fetched and saved.                                          *)
OtherProgramSaves ==
  /\ \E s \in Fetchable : disk' = [at |-> clock, entries |-> s]
  /\ UNCHANGED <<clock, refresh, fetched, last, models, aliases, merged>>

RegistryNext ==
  \/ Tick \/ OtherProgramSaves
  \/ UseRegistry \/ LoadsCache \/ Fetches \/ Saves \/ MergesFetched
RegistrySpec == RegistryInit /\ [][RegistryNext]_registryVars

-----------------------------------------------------------------------------
(* model_registry_live.go:49-54, 265-274: the program does not go on with old  *)
(* data.  While it holds a refresh to be unnecessary it has merged data that   *)
(* was less than twice the lifetime old, in spite of failed refreshes and of   *)
(* caches other programs saved.                                               *)
DataIsRecent ==
  refresh = "none" /\ ~Due => merged > 0 /\ clock - merged < 2 * LiveTTL

(* model_registry_live.go:154-193: whatever the network says, a curated alias  *)
(* keeps its meaning, or is now the very name of a model the network added;    *)
(* every alias names a model; and a curated limit is never zeroed.             *)
CuratedSurvive ==
  /\ \A a \in Aliases :
       /\ CuratedAlias[a] # Unset => \/ aliases[a] = CuratedAlias[a]
                                    \/ (aliases[a] \in Upstream /\ Lower[aliases[a]] = a)
       /\ aliases[a] # Unset => models[aliases[a]] # Unknown
  /\ \A n \in Curated : models[n] > 0

-----------------------------------------------------------------------------
(* The prompt cache of a session (internal/apikit/prompt_cache.go): answers    *)
(* kept on disk under the hash of their request for half a minute, and a watch  *)
(* over the tokens the provider read from its own cache, which tells the drops *)
(* that a changed prompt or an expiry explains from those that nothing does.   *)
(* A lookup reads the entry outside the lock and acts on it under the lock.    *)
CONSTANTS
  Prompts,        \* requests, by their hash
  Callers,        \* goroutines that look up
  CompletionTTL,  \* ticks an answer is kept
  PromptTTL,      \* ticks the provider keeps a prompt
  MaxTime         \* bound on the clock

VARIABLES
  time,
  answers,        \* the completions directory: when and with how many cached tokens
  previous,       \* c.previous: the prompt, the cached tokens, when it was observed
  lookup,         \* each caller: the entry it has read, not acted on yet
  hit,            \* the last answer given from the cache: how old it was, or -1
  break,          \* what the last response was found to be
  askedAt         \* for the property: each prompt's last answer by the provider

ASSUME PromptAssumption ==
  /\ CompletionTTL \in Nat \ {0} /\ PromptTTL \in Nat /\ MaxTime \in Nat
  /\ "none" \notin Prompts

promptVars == <<time, answers, previous, lookup, hit, break, askedAt>>

NoAnswer == [at |-> -1, read |-> 0]
NoState == [prompt |-> "none", read |-> 0, at |-> 0]
Idle == [prompt |-> "none", entry |-> NoAnswer, expired |-> FALSE]
Reads == {0, 1}

PromptTypeOK ==
  /\ time \in 0..MaxTime /\ answers \in [Prompts -> [at : -1..MaxTime, read : Reads]]
  /\ previous.prompt \in Prompts \cup {"none"}
  /\ \A g \in Callers : lookup[g].prompt \in Prompts \cup {"none"}
  /\ hit \in -1..MaxTime /\ break \in {"none", "expected", "unexpected"}

PromptInit ==
  /\ time = 0 /\ answers = [p \in Prompts |-> NoAnswer] /\ previous = NoState
  /\ lookup = [g \in Callers |-> Idle] /\ hit = -1 /\ break = "none"
  /\ askedAt = [p \in Prompts |-> -1]

-----------------------------------------------------------------------------
(* Time passes; between the read of an entry and the lock it does not.         *)
PromptTick ==
  /\ time < MaxTime /\ time' = time + 1 /\ \A g \in Callers : lookup[g] = Idle
  /\ hit' = -1 /\ break' = "none" /\ UNCHANGED <<answers, previous, lookup, askedAt>>

(* LookupCompletion up to the second lock: the entry as it was, and its age.   *)
MutIsExpired(entry) == time - entry.at > CompletionTTL
IsExpired(entry) == time - entry.at >= CompletionTTL
LookUp(g) ==
  /\ lookup[g] = Idle
  /\ \E p \in Prompts :
       lookup' = [lookup EXCEPT ![g] = [prompt |-> p, entry |-> answers[p],
                                        expired |-> answers[p] # NoAnswer /\ IsExpired(answers[p])]]
  /\ UNCHANGED <<time, answers, previous, hit, break, askedAt>>

(* The rest: a miss; an expired entry is removed, whoever wrote the file now;  *)
(* a hit is an observation of its prompt, with the tokens of the old response. *)
Observation(l) == [prompt |-> l.prompt, read |-> l.entry.read, at |-> time]
LookUpEnds(g) ==
  LET l == lookup[g]
  IN /\ l # Idle /\ lookup' = [lookup EXCEPT ![g] = Idle]
     /\ \/ /\ l.entry = NoAnswer \/ l.expired
           /\ answers' = IF l.expired THEN [answers EXCEPT ![l.prompt] = NoAnswer] ELSE answers
           /\ UNCHANGED <<previous, hit>>
        \/ /\ l.entry # NoAnswer /\ ~l.expired
           /\ previous' = Observation(l) /\ hit' = time - l.entry.at /\ UNCHANGED answers
     /\ UNCHANGED <<time, break, askedAt>>

(* detectCacheBreak: a drop with the same prompt within its lifetime.           *)
MutBreakOf(prompt, read) ==
  IF previous = NoState \/ previous.read <= read THEN "none"
  ELSE IF previous.prompt # prompt THEN "expected" ELSE "unexpected"
BreakOf(prompt, read) ==
  IF previous = NoState \/ previous.read <= read THEN "none"
  ELSE IF previous.prompt # prompt \/ time - previous.at > PromptTTL THEN "expected" ELSE "unexpected"

(* RecordResponse and RecordUsage, which keeps no answer.                      *)
Records ==
  /\ \E p \in Prompts, read \in Reads, kept \in BOOLEAN :
       /\ break' = BreakOf(p, read)
       /\ previous' = [prompt |-> p, read |-> read, at |-> time]
       /\ askedAt' = [askedAt EXCEPT ![p] = time]
       /\ answers' = IF kept THEN [answers EXCEPT ![p] = [at |-> time, read |-> read]] ELSE answers
  /\ hit' = -1 /\ UNCHANGED <<time, lookup>>

(* Another program with the session reads and writes the same directory.       *)
NewProgram ==
  /\ lookup' = [g \in Callers |-> Idle] /\ hit' = -1 /\ break' = "none"
  /\ UNCHANGED <<time, answers, previous, askedAt>>

PromptNext ==
  \/ PromptTick \/ Records \/ NewProgram
  \/ \E g \in Callers : LookUp(g) \/ LookUpEnds(g)
PromptSpec == PromptInit /\ [][PromptNext]_promptVars

-----------------------------------------------------------------------------
(* prompt_cache.go:170-176: an answer given from the cache is younger than its *)
(* lifetime, whatever was written or removed since it was read.                *)
HitsAreFresh == hit < CompletionTTL

(* prompt_cache.go:385-392: a drop is called unexpected only when the provider *)
(* answered this very prompt not longer ago than its lifetime and that of an   *)
(* answer kept from it, which a hit puts in its place.                         *)
UnexpectedHasACause ==
  [][break' = "unexpected" /\ break # "unexpected" =>
       \E p \in Prompts : /\ previous'.prompt = p /\ askedAt[p] >= 0
                          /\ time - askedAt[p] < PromptTTL + CompletionTTL]_promptVars
=============================================================================
