---------------------------- MODULE BashCommand ----------------------------
(* The bash tool (internal/tools/bash.go, bash_unix.go): a command is       *)
(* judged (bash_validation.go, bash_pipeline.go), run in a process group of *)
(* its own, and ended by its exit, its timeout or the caller.               *)
(*                                                                          *)
(* Two views of a command's text: characters, for the split at operators,   *)
(* and words, for the judgement. A word stands for a text the code looks    *)
(* for with strings.Contains, so "contains" is "occurs among the words".    *)
EXTENDS Naturals, SequencesExt

CONSTANTS Chars, MaxChars,  \* characters and length of the texts that are split
          Commands,         \* the commands that are judged: the parts between operators
          Timeout, WaitDelay \* ticks until a command is killed, and until its pipe is closed

ASSUME BashAssumption == Timeout \in Nat /\ WaitDelay \in Nat

VARIABLES script,           \* the command in both views, and how it is judged
          shell             \* the run of the command

bashVars == <<script, shell>>

---------------------------------------------------------------------------
(* The split at operators.                                                 *)

MutToggles(s, c) == c \in {"'", "\""}
Toggles(s, c) == c \in {"'", "\""} /\ s.quote \in {"", c}

Escapes(s, c) == c = "\\" /\ s.quote # "'"

\* The text up to here as a part; an empty text before the first operator is none.
WithPart(s) ==
  IF s.current = <<>> /\ s.parts = <<>> THEN s.parts
  ELSE Append(s.parts, [command |-> s.current, operator |-> s.op])

\* One character: text if escaped or quoted, else perhaps an operator.
ReadChar(s, text, i) ==
  LET c == text[i]
      keep == [s EXCEPT !.current = Append(@, c)]
      two == c \in {"|", "&"} /\ i < Len(text) /\ text[i + 1] = c
  IN CASE s.skip -> [s EXCEPT !.skip = FALSE]
       [] s.escaped -> [keep EXCEPT !.escaped = FALSE]
       [] Escapes(s, c) -> [keep EXCEPT !.escaped = TRUE]
       [] Toggles(s, c) -> [keep EXCEPT !.quote = IF @ = c THEN "" ELSE c]
       [] s.quote = "" /\ (two \/ c \in {"|", ";"}) ->
            [s EXCEPT !.parts = WithPart(s), !.op = IF two THEN <<c, c>> ELSE <<c>>, !.current = <<>>, !.skip = two]
       [] OTHER -> keep

SplitPipeline(text) ==
  LET start == [parts |-> <<>>, current |-> <<>>, op |-> <<>>, quote |-> "", escaped |-> FALSE, skip |-> FALSE]
  IN WithPart(FoldLeft(LAMBDA s, i : ReadChar(s, text, i), start, [i \in 1..Len(text) |-> i]))

---------------------------------------------------------------------------
(* The judgement of a command, a sequence of words.                        *)

WriteCommands == {"cp", "rm", "shred"}
StateCommands == {"npm"}
ReadCommands == {"cat", "sed", "echo", "printenv", "grep"}
AlwaysDestructive == {"shred", "wipefs"}
SystemPaths == {"/etc/"}
GitReads == {"status"}
Flags == {"-i", "-u", "-rf", "-r", "-f", "-x", "-C", "--max-time"}
BashModes == <<"danger-full-access", "workspace-write", "read-only">>
Severity == [allow |-> 0, warn |-> 1, block |-> 2]

Has(w, word) == word \in ToSet(w)
Followed(w, word) == Has(Front(w), word)

\* Leading VAR=value words are not the command.
FirstCommand(w) ==
  LET named == SelectInSeq(w, LAMBDA x : x # "VAR=1")
  IN IF named = 0 THEN "" ELSE w[named]

FirstPlain(w, from) == SelectInSubSeq(w, from, Len(w), LAMBDA x : x \notin Flags)

\* What sudo runs, from the first place in the command where its first plain word occurs.
SudoInner(w) ==
  LET plain == FirstPlain(w, SelectInSeq(w, LAMBDA x : x = "sudo") + 1)
  IN IF plain = 0 THEN <<>> ELSE SubSeq(w, SelectInSeq(w, LAMBDA x : x = w[plain]), Len(w))

GitWord(w) == LET plain == FirstPlain(w, 2) IN IF plain = 0 THEN "" ELSE w[plain]

MutStopsByText(w, first) == Has(w, ">")
StopsByName(first) == first \in WriteCommands \union StateCommands
StopsByText(w, first) == Has(w, ">") \/ (first = "git" /\ GitWord(w) \notin GitReads \union {""})

\* The command behind sudo is judged like any other; when it is the same text
\* again (the second "sudo" is found where the first one is) there is no end to it.
ValidateReadOnly[w \in Seq(STRING)] ==
  LET first == FirstCommand(w)
      inner == SudoInner(w)
      behind == IF first # "sudo" \/ inner = <<>> THEN "allow"
                ELSE IF inner = w THEN "endless" ELSE ValidateReadOnly[inner]
  IN IF StopsByName(first) THEN "block"
     ELSE IF behind # "allow" THEN behind
     ELSE IF StopsByText(w, first) THEN "block" ELSE "allow"

MutOutsideWorkspace(w) == \E p \in SystemPaths : Has(w, p)
OutsideWorkspace(w) ==
  FirstCommand(w) \in WriteCommands \union StateCommands /\ \E p \in SystemPaths : Has(w, p)

ValidateMode(w, mode) ==
  CASE mode = "read-only" -> ValidateReadOnly[w]
    [] mode = "workspace-write" /\ OutsideWorkspace(w) -> "warn"
    [] OTHER -> "allow"

ValidateSed(w, mode) ==
  IF FirstCommand(w) = "sed" /\ mode = "read-only" /\ Has(Tail(w), "-i") THEN "block" ELSE "allow"

ForcedDeletion(w) ==
  \E i \in 1..Len(w) - 2 : w[i] = "rm" /\ w[i + 1] = "-rf" /\ w[i + 2] \in {"/etc/", "../", "~/"}
CheckDestructive(w) ==
  IF \/ ForcedDeletion(w)
     \/ FirstCommand(w) \in AlwaysDestructive
     \/ Followed(w, "rm") /\ Has(w, "-f") /\ (Has(w, "-r") \/ Has(w, "-rf"))
  THEN "warn" ELSE "allow"

ValidatePaths(w) == IF (Has(w, "../") /\ ~Has(w, "workspace")) \/ Has(w, "~/") THEN "warn" ELSE "allow"

DetectSudoElevatedFlags(w) ==
  IF w[1] = "sudo" /\ \E i \in 2..Len(w) : w[i] = "-u" /\ \A j \in 2..i : w[j] \in Flags THEN "warn" ELSE "allow"

ValidateArchiveExtraction(w) ==
  IF FirstCommand(w) = "tar" /\ (Has(w, "../") \/ (Has(w, "-x") /\ ~Has(w, "-C"))) THEN "warn" ELSE "allow"

DetectEnvVarLeak(w) ==
  IF Has(w, "$TOKEN") /\ (Followed(w, "echo") \/ Has(w, "printenv")) THEN "warn" ELSE "allow"

ValidateNetworkTimeout(w) ==
  IF FirstCommand(w) = "curl" /\ ~Has(w, "--max-time") THEN "warn" ELSE "allow"

\* The first of the verdicts that is not "allow".
FirstObjection(verdicts) ==
  LET i == SelectInSeq(verdicts, LAMBDA v : v # "allow") IN IF i = 0 THEN "allow" ELSE verdicts[i]

ValidateSingleCommand(w, mode) ==
  IF w = <<>> THEN "allow"
  ELSE FirstObjection(<<ValidateMode(w, mode), ValidateSed(w, mode), CheckDestructive(w)>>)

Whole(parts) == FoldLeft(LAMBDA w, p : IF w = <<>> THEN p ELSE w \o <<"|">> \o p, <<>>, parts)

MutPartVerdicts(parts, mode) ==
  IF Len(parts) > 1 THEN [i \in 1..Len(parts) - 1 |-> ValidateSingleCommand(parts[i], mode)] ELSE <<>>
PartVerdicts(parts, mode) ==
  IF Len(parts) > 1 THEN [i \in 1..Len(parts) |-> ValidateSingleCommand(parts[i], mode)] ELSE <<>>

ValidateCommand(parts, mode) ==
  LET w == Whole(parts)
  IN FirstObjection(PartVerdicts(parts, mode)
       \o <<ValidateMode(w, mode), ValidateSed(w, mode), CheckDestructive(w), ValidatePaths(w),
            DetectSudoElevatedFlags(w), ValidateArchiveExtraction(w), DetectEnvVarLeak(w), ValidateNetworkTimeout(w)>>)

\* What the command is for, by its first word.
ClassifyCommand(w) ==
  LET first == FirstCommand(w)
  IN CASE first \in ReadCommands -> IF first = "sed" /\ Has(Tail(w), "-i") THEN "write" ELSE "read-only"
       [] first \in AlwaysDestructive \union {"rm"} -> "destructive"
       [] first \in WriteCommands -> "write"
       [] first = "curl" -> "network"
       [] first \in StateCommands -> "package"
       [] first = "sudo" -> "system"
       [] first = "git" -> IF GitWord(w) \in GitReads THEN "read-only" ELSE "write"
       [] OTHER -> "unknown"

---------------------------------------------------------------------------
(* The run. The pipe is open while bash or a descendant that inherited it   *)
(* lives: a job of bash's process group, or a daemon that left the group.   *)

ShellReady == [call |-> "ready", bash |-> "none", job |-> FALSE, daemon |-> FALSE, ctx |-> "live", clock |-> 0, since |-> 0]
PipeOpen == shell.bash = "running" \/ shell.job \/ shell.daemon

BashInit ==
  /\ shell = ShellReady
  /\ script \in {[text |-> t, parts |-> <<>>, verdict |-> "none"] : t \in UNION {[1..n -> Chars] : n \in 0..MaxChars}}
       \union {[text |-> <<>>, parts |-> p, verdict |-> ValidateCommand(p, m)] : p \in Commands, m \in ToSet(BashModes)}

ExecuteBash ==
  /\ shell.call = "ready" /\ script.parts # <<>>
  /\ shell' = CASE script.verdict = "block" -> [shell EXCEPT !.call = "blocked"]
                [] script.verdict = "endless" -> [shell EXCEPT !.call = "overflow"]
                [] OTHER -> [shell EXCEPT !.call = "running", !.bash = "running"]
  /\ UNCHANGED script

BashForks ==
  /\ shell.bash = "running"
  /\ \E kind \in {"job", "daemon"} : shell' = [shell EXCEPT ![kind] = TRUE]
  /\ UNCHANGED script

DescendantEnds ==
  /\ \E kind \in {"job", "daemon"} : shell[kind] /\ shell' = [shell EXCEPT ![kind] = FALSE]
  /\ UNCHANGED script

BashExits ==
  /\ shell.bash = "running"
  /\ \E code \in {"succeeded", "failed"} : shell' = [shell EXCEPT !.bash = code]
  /\ UNCHANGED script

CancelCall ==
  /\ shell.ctx = "live" /\ shell.call \in {"running", "draining"}
  /\ shell' = [shell EXCEPT !.ctx = "cancelled"]
  /\ UNCHANGED script

DeadlineDue == shell.ctx = "live" /\ shell.call \in {"running", "draining"} /\ shell.clock >= Timeout
DeadlinePasses ==
  /\ DeadlineDue
  /\ shell' = [shell EXCEPT !.ctx = "deadline"]
  /\ UNCHANGED script

\* One signal to the whole group (bash_unix.go:17).
KillDue == shell.call = "running" /\ shell.ctx # "live"
KillGroup ==
  /\ KillDue
  /\ shell' = [shell EXCEPT !.job = FALSE, !.bash = IF @ = "running" THEN "killed" ELSE @,
                            !.call = "draining", !.since = shell.clock]
  /\ UNCHANGED script

ReapDue == shell.call = "running" /\ shell.bash # "running"
Reap ==
  /\ ReapDue
  /\ shell' = [shell EXCEPT !.call = "draining", !.since = shell.clock]
  /\ UNCHANGED script

MutCallOutcome(cut) ==
  CASE shell.bash = "succeeded" -> "ok"
    [] shell.ctx = "deadline" -> "timedOut"
    [] shell.ctx = "cancelled" -> "cancelled"
    [] OTHER -> "error"
CallOutcome(cut) ==
  CASE shell.bash = "succeeded" /\ ~cut -> "ok"
    [] shell.ctx = "deadline" -> "timedOut"
    [] shell.ctx = "cancelled" -> "cancelled"
    [] OTHER -> "error"

\* The copying of the output ends with the pipe.
Drained ==
  /\ shell.call = "draining" /\ ~PipeOpen
  /\ shell' = [shell EXCEPT !.call = CallOutcome(FALSE)]
  /\ UNCHANGED script

MutDelayOver == FALSE
DelayOver == shell.call = "draining" /\ shell.clock - shell.since >= WaitDelay
\* ... or is cut off some time after bash.
WaitDelayExpires ==
  /\ DelayOver
  /\ shell' = [shell EXCEPT !.call = CallOutcome(PipeOpen)]
  /\ UNCHANGED script

\* Time passes while a command runs, but not past what is due.
Tick ==
  /\ shell.call \in {"running", "draining"} /\ shell.clock <= Timeout + WaitDelay
  /\ ~(DeadlineDue \/ KillDue \/ ReapDue \/ DelayOver)
  /\ shell.call = "draining" => PipeOpen
  /\ shell' = [shell EXCEPT !.clock = @ + 1]
  /\ UNCHANGED script

Ended == shell.call \in {"blocked", "ok", "timedOut", "cancelled", "error", "overflow"}

BashNext ==
  \/ ExecuteBash \/ BashForks \/ DescendantEnds \/ BashExits
  \/ CancelCall \/ DeadlinePasses \/ KillGroup \/ Reap \/ Drained \/ WaitDelayExpires \/ Tick

BashSpec == BashInit /\ [][BashNext]_bashVars

---------------------------------------------------------------------------
(* Properties.                                                             *)

(* The variables have their types (bash.go:85-153).                         *)
BashTypeOK ==
  /\ script.text \in Seq(Chars) /\ script.parts \in Commands \union {<<>>}
  /\ script.verdict \in {"none", "allow", "warn", "block", "endless"}
  /\ shell.call \in {"ready", "running", "draining"} \/ Ended
  /\ shell.bash \in {"none", "running", "succeeded", "failed", "killed"}
  /\ shell.ctx \in {"live", "deadline", "cancelled"}

\* A shell's quoting, as a grammar: what may stand inside double quotes, and
\* the texts at whose end no quote is open.
Inner[t \in Seq(STRING)] ==
  \/ t = <<>>
  \/ t[1] \notin {"\"", "\\"} /\ Inner[Tail(t)]
  \/ t[1] = "\\" /\ Len(t) > 1 /\ Inner[SubSeq(t, 3, Len(t))]
Closed[t \in Seq(STRING)] ==
  \/ t = <<>>
  \/ t[1] \notin {"'", "\"", "\\"} /\ Closed[Tail(t)]
  \/ t[1] = "\\" /\ Len(t) > 1 /\ Closed[SubSeq(t, 3, Len(t))]
  \/ \E j \in 2..Len(t) :
       /\ t[j] = t[1] /\ t[1] \in {"'", "\""} /\ Closed[SubSeq(t, j + 1, Len(t))]
       /\ IF t[1] = "'" THEN "'" \notin ToSet(SubSeq(t, 2, j - 1)) ELSE Inner[SubSeq(t, 2, j - 1)]

(* A text is cut at each operator outside quotes and nowhere else, and the  *)
(* cut loses nothing but operators nothing stands before                    *)
(* (bash_pipeline.go:17-115).                                               *)
SplitsAreExact ==
  LET parts == SplitPipeline(script.text)
      spelled == FlattenSeq([i \in 1..Len(parts) |-> parts[i].operator \o parts[i].command])
      lost == SubSeq(script.text, 1, Len(script.text) - Len(spelled))
      OperatorAt(t, i) == t[i] \in {"|", ";"} \/ (t[i] = "&" /\ i < Len(t) /\ t[i + 1] = "&")
  IN script.parts = <<>> =>
       /\ lost \o spelled = script.text /\ ToSet(lost) \subseteq {"|", "&", ";"}
       /\ \A i \in 1..Len(parts) - 1 : Closed[parts[i].command]
       /\ \A i \in 1..Len(parts) : \A j \in 1..Len(parts[i].command) :
            OperatorAt(parts[i].command, j) => ~Closed[SubSeq(parts[i].command, 1, j - 1)]

(* In read-only mode no part of a command whose purpose is to write or to   *)
(* destroy passes without a word, wherever in the command it stands: the    *)
(* classifier and the validators have lists of their own                    *)
(* (bash_validation.go:274-355, 488-546, 554-631).                          *)
WritersAreStopped ==
  \A i \in 1..Len(script.parts) :
    LET w == script.parts[i]
    IN ClassifyCommand(w) \in {"write", "destructive"} /\ ~(FirstCommand(w) = "git" /\ GitWord(w) = "")
         => ValidateCommand(script.parts, "read-only") # "allow"

(* A stricter mode judges no command more mildly (bash_validation.go:400).  *)
ModesOnlyTighten ==
  script.parts # <<>> =>
    \A m \in 1..2 : Severity[ValidateCommand(script.parts, BashModes[m])] <= Severity[ValidateCommand(script.parts, BashModes[m + 1])]

(* A result without an error is the whole output of a command that          *)
(* succeeded: nobody is left who could write more (bash.go:125-152).        *)
OutputIsWhole == shell.call = "ok" => shell.bash = "succeeded" /\ ~PipeOpen

(* Every judgement comes to an end: "Returns the first non-Allow result, or *)
(* Allow if all validations pass." (bash_validation.go:553)                 *)
JudgementEnds == shell.call # "overflow"

(* A command ends for its caller by its timeout and the delay after it,     *)
(* even when bash, or what bash started, does not end (bash.go:79-131).     *)
CommandReturns == shell.call \in {"running", "draining"} => shell.clock <= Timeout + WaitDelay
=============================================================================
