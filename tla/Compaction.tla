------------------------------ MODULE Compaction ------------------------------
(* Compaction of a history (internal/runtime/compact.go) and the compression  *)
(* of its summary (summary_compression.go), over several compactions of one    *)
(* session: by a model's answer, or by the function that asks no model.  A     *)
(* summary is a sequence of lines; a line says what it is and which compaction  *)
(* it comes from.  Wording is left out.                                        *)
EXTENDS Integers, Sequences, SequencesExt, FiniteSetsExt

CONSTANTS
  KeepRecent,     \* CompactionKeepRecent, PreserveRecentMessages
  MaxEstimated,   \* MaxEstimatedTokens
  MaxLines, MaxChars, MaxLineChars,  \* SummaryCompressionBudget
  MaxMessages,    \* bound on the messages said
  MaxCompactions  \* bound on the compactions

VARIABLES
  way,            \* "model" or "pure"
  messages,       \* session.Messages
  said,           \* messages said so far
  summary,        \* session.CompactionSummary
  count,          \* session.CompactionCount
  last            \* for the properties: the last summary as it came and as it was merged, and
                  \* whether a line was ever omitted

compactionVars == <<way, messages, said, summary, count, last>>

Line(tag, of, size) == [tag |-> tag, of |-> of, size |-> size]
Message(role, kind) == [role |-> role, kind |-> kind, lines |-> <<>>]
Tags == {"<analysis>", "thought", "</analysis>", "<summary>", "</summary>", "title", "core",
         "header", "Key timeline", "item", "prose", "omitted", "blank"}
BlankLine == Line("blank", 0, 0)
Lines == [tag : Tags, of : 0..(MaxCompactions * MaxLines * 4), size : 0..(MaxLineChars + 1)]

CompactionInit ==
  /\ way \in {"model", "pure"} /\ messages = <<>> /\ said = 0
  /\ summary = <<>> /\ count = 0 /\ last = [new |-> <<>>, merged |-> <<>>, omitted |-> FALSE]

-----------------------------------------------------------------------------
(* CompressSummary *)
LinePriority(l) ==
  CASE l.tag \in {"title", "core"} -> 0
    [] l.tag \in {"header", "Key timeline"} -> 1
    [] l.tag \in {"item", "omitted"} -> 2
    [] OTHER -> 3

JoinedChars(ls) == FoldLeft(LAMBDA n, l : n + l.size, Len(ls) - 1, ls)
Fits(ls) == Len(ls) <= MaxLines /\ JoinedChars(ls) <= MaxChars
Indexes(ls) == [i \in 1..Len(ls) |-> i]
Picked(ls, chosen) ==
  LET ix == SelectSeq(Indexes(ls), LAMBDA i : i \in chosen) IN [k \in 1..Len(ix) |-> ls[ix[k]]]

(* normalizeLines: lines are cut, and blank and repeated ones dropped.         *)
NormalizeLines(ls) ==
  FoldLeft(LAMBDA kept, l : LET cut == [l EXCEPT !.size = IF @ > MaxLineChars THEN MaxLineChars ELSE @]
                            IN IF l = BlankLine \/ cut \in ToSet(kept) THEN kept ELSE Append(kept, cut), <<>>, ls)

(* selectLineIndexes: by priority, then in order, whatever still fits.         *)
MutOrder(ls) == Indexes(ls)
Order(ls) ==
  FlattenSeq([p \in 1..4 |-> SelectSeq(Indexes(ls), LAMBDA i : LinePriority(ls[i]) = p - 1)])
SelectLines(ls) ==
  FoldLeft(LAMBDA s, i : IF Fits(Picked(ls, s \cup {i})) THEN s \cup {i} ELSE s, {}, Order(ls))

MutPushLine(ls, l) == Append(ls, l)
PushLine(ls, l) == IF Fits(Append(ls, l)) THEN Append(ls, l) ELSE ls

Compressed(ls) ==
  LET all == NormalizeLines(ls)
      chosen == Picked(all, SelectLines(all))
      kept == IF chosen = <<>> THEN <<[all[1] EXCEPT !.size = MaxChars]>> ELSE chosen
  IN IF all = <<>> THEN <<>>
     ELSE IF Len(kept) = Len(all) THEN kept
     ELSE PushLine(kept, Line("omitted", Len(all) - Len(kept), 1))

-----------------------------------------------------------------------------
(* FormatCompactSummary.  A pair is an opening tag and the next closing one    *)
(* (the regular expressions are not greedy); every pair is replaced, that of   *)
(* an analysis by nothing, which leaves a blank line, and that of a summary by *)
(* a title and what the first of them holds.                                   *)
InPair(ls, i, open, close) ==
  /\ \E o \in 1..i : ls[o].tag = open /\ \A k \in o..(i - 1) : ls[k].tag # close
  /\ \E c \in i..Len(ls) : ls[c].tag = close
ReplacePairs(ls, open, close, text) ==
  FoldLeft(LAMBDA s, i : IF ~InPair(ls, i, open, close) THEN Append(s, ls[i])
                         ELSE IF ls[i].tag = close THEN s \o text ELSE s, <<>>, Indexes(ls))
Between(ls, open, close) ==
  LET rest == SubSeq(ls, SelectInSeq(ls, LAMBDA l : l.tag = open) + 1, Len(ls))
  IN SubSeq(rest, 1, SelectInSeq(rest, LAMBDA l : l.tag = close) - 1)

MutStrip(ls) ==     \* only the first pair
  LET end == SelectInSeq(ls, LAMBDA l : l.tag = "</analysis>")
  IN ReplacePairs(SubSeq(ls, 1, end), "<analysis>", "</analysis>", <<BlankLine>>)
       \o SubSeq(ls, end + 1, Len(ls))
Strip(ls) == ReplacePairs(ls, "<analysis>", "</analysis>", <<BlankLine>>)

(* collapseBlankLines and TrimSpace: none at the ends, no two in a row.        *)
Collapse(ls) ==
  LET kept == FoldLeft(LAMBDA s, l : IF l = BlankLine /\ (s = <<>> \/ Last(s) = BlankLine) THEN s
                                     ELSE Append(s, l), <<>>, ls)
  IN IF kept # <<>> /\ Last(kept) = BlankLine THEN Front(kept) ELSE kept

FormatCompactSummary(raw) ==
  LET ls == Strip(raw)
      held == Between(ls, "<summary>", "</summary>")
  IN Collapse(ReplacePairs(ls, "<summary>", "</summary>", <<Line("title", 0, 1)>> \o held))

TimelineAt(ls) == SelectInSeq(ls, LAMBDA l : l.tag = "Key timeline")
BeforeTimeline(ls) == IF TimelineAt(ls) = 0 THEN ls ELSE SubSeq(ls, 1, TimelineAt(ls) - 1)
Highlights(raw) ==
  SelectSeq(BeforeTimeline(FormatCompactSummary(raw)), LAMBDA l : l.tag \notin {"title", "blank"})
MutTimeline(raw) == <<>>
(* The timeline ends at the first blank line.                                  *)
Timeline(raw) ==
  LET ls == FormatCompactSummary(raw)
      rest == SubSeq(ls, TimelineAt(ls), Len(ls))
      blank == SelectInSeq(rest, LAMBDA l : l = BlankLine)
  IN IF TimelineAt(ls) = 0 THEN <<>>
     ELSE SelectSeq(IF blank = 0 THEN rest ELSE SubSeq(rest, 1, blank - 1),
                    LAMBDA l : l.tag # "Key timeline")

(* MergeCompactSummaries: the timeline of the previous one is not kept.        *)
Section(head, ls) == IF ls = <<>> THEN <<>> ELSE <<head>> \o ls
MutMergeSummaries(previous, current) ==
  IF previous = <<>> THEN current
  ELSE <<Line("<summary>", 0, 1)>> \o Highlights(current) \o Highlights(previous) \o <<Line("</summary>", 0, 1)>>
MergeSummaries(previous, current) ==
  IF previous = <<>> THEN current
  ELSE IF current = <<>> THEN previous
  ELSE <<Line("<summary>", 0, 1), Line("title", 0, 1)>>
       \o Section(Line("core", 0, 1), Highlights(previous))
       \o Section(Line("core", 0, 2), Highlights(FormatCompactSummary(current)))
       \o Section(Line("Key timeline", 0, 1), Timeline(FormatCompactSummary(current)))
       \o <<Line("</summary>", 0, 1)>>

Continuation(ls) == [role |-> "system", kind |-> "summary", lines |-> FormatCompactSummary(ls)]

-----------------------------------------------------------------------------
(* What is said, in the order of the loop.                                    *)
After(ms) ==
  IF ms = <<>> THEN {Message("user", "text")}
  ELSE LET m == Last(ms)
       IN CASE m.kind = "call" -> {Message("user", "result")}
            [] m.kind = "result" \/ (m.role = "user" /\ m.kind = "text") ->
                 {Message("assistant", "text"), Message("assistant", "call")}
            [] OTHER -> {Message("user", "text")}

Say ==
  /\ said < MaxMessages /\ said' = said + 1
  /\ \E m \in After(messages) : messages' = Append(messages, m)
  /\ UNCHANGED <<way, summary, count, last>>

Suffix(ms, n) == SubSeq(ms, Len(ms) - n + 1, Len(ms))
KeepCount(ms) == IF KeepRecent > Len(ms) THEN Len(ms) ELSE KeepRecent

(* What the model may answer to the k-th transcript: thoughts before and after *)
(* a summary; a summary in the shape of the pure one, with or without thoughts *)
(* or a blank line in its timeline; or prose.                                  *)
ModelSummaries(k) ==
  LET thoughts == <<Line("<analysis>", k, 1), Line("thought", k, 3), Line("</analysis>", k, 1)>>
      timeline == <<Line("core", k, 1), Line("Key timeline", 0, 1), Line("item", k, 2)>>
      Summary(ls) == <<Line("<summary>", 0, 1)>> \o ls \o <<Line("</summary>", 0, 1)>>
  IN {thoughts \o Summary(<<Line("prose", k, 2)>>) \o thoughts, Summary(timeline),
      Summary(timeline \o thoughts \o <<Line("item", k, 1)>>),
      Summary(timeline \o <<BlankLine, Line("item", k, 1)>>),
      <<Line("prose", k, 3), Line("item", k, 1)>>}

(* CompactSession: a request that fails changes nothing.                      *)
CompactSession ==
  /\ way = "model" /\ messages # <<>> /\ count < MaxCompactions
  /\ \E new \in ModelSummaries(count + 1) :
       LET merged == MergeSummaries(summary, new)
       IN /\ summary' = Compressed(merged)
          /\ messages' = <<Continuation(merged)>> \o Suffix(messages, KeepCount(messages))
          /\ last' = [new |-> new, merged |-> merged,
                      omitted |-> last.omitted \/ Compressed(merged) # NormalizeLines(merged)]
  /\ count' = count + 1 /\ UNCHANGED <<way, said>>

(* extractExistingCompactedSummary, compactableMessages, ShouldCompactPure.    *)
Existing(ms) == IF ms # <<>> /\ Head(ms).kind = "summary" THEN Head(ms).lines ELSE <<>>
MutCompactable(ms) == ms
Compactable(ms) == IF Existing(ms) # <<>> THEN Tail(ms) ELSE ms
Tokens(m) == IF m.kind = "result" THEN 2 ELSE 1
EstimateTokens(ms) == FoldLeft(LAMBDA n, m : n + Tokens(m), 0, ms)
ShouldCompactPure(ms) ==
  /\ Len(Compactable(ms)) > KeepRecent
  /\ EstimateTokens(Compactable(ms)) >= MaxEstimated

(* SummarizeMessages: the scope, the tools, the last three requests, the       *)
(* current work, and the timeline of all.                                      *)
RecentRequests(ms, k) ==
  LET requests == SelectSeq(ms, LAMBDA m : m.role = "user" /\ m.kind = "text")
      n == IF Len(requests) > 3 THEN 3 ELSE Len(requests)
  IN IF n = 0 THEN <<>> ELSE <<Line("core", k, 2)>> \o [i \in 1..n |-> Line("item", k, 2)]
CurrentWork(ms, k) ==
  IF \E i \in 1..Len(ms) : ms[i].kind = "text" THEN <<Line("core", k, 3)>> ELSE <<>>
SummarizeMessages(ms, k) ==
  <<Line("<summary>", 0, 1), Line("title", 0, 1), Line("core", k, 1)>>
  \o (IF \E i \in 1..Len(ms) : ms[i].kind = "call" THEN <<Line("core", k, 0)>> ELSE <<>>)
  \o RecentRequests(ms, k) \o CurrentWork(ms, k)
  \o <<Line("Key timeline", 0, 1)>> \o [i \in 1..Len(ms) |-> Line("item", k, 1)]
  \o <<Line("</summary>", 0, 1)>>

CompactSessionPure ==
  /\ way = "pure" /\ ShouldCompactPure(messages) /\ count < MaxCompactions
  /\ LET compactable == Compactable(messages)
         recent == Suffix(compactable, KeepCount(compactable))
         new == SummarizeMessages(SubSeq(compactable, 1, Len(compactable) - Len(recent)), count + 1)
         merged == MergeSummaries(Existing(messages), new)
     IN /\ summary' = Compressed(merged)
        /\ messages' = <<Continuation(merged)>> \o recent
        /\ last' = [new |-> new, merged |-> merged,
                    omitted |-> last.omitted \/ Compressed(merged) # NormalizeLines(merged)]
  /\ count' = count + 1 /\ UNCHANGED <<way, said>>

CompactionNext == Say \/ CompactSession \/ CompactSessionPure
CompactionSpec == CompactionInit /\ [][CompactionNext]_compactionVars

-----------------------------------------------------------------------------
(* The history, its summary and the counts keep their types (compact.go).      *)
CompactionTypeOK ==
  /\ way \in {"model", "pure"} /\ said \in 0..MaxMessages /\ count \in 0..MaxCompactions
  /\ \A i \in 1..Len(messages) : /\ messages[i].role \in {"user", "assistant", "system"}
                                 /\ ToSet(messages[i].lines) \subseteq Lines
  /\ ToSet(summary) \subseteq Lines

(* summary_compression.go:49-51: the stored summary is within its budget, the  *)
(* notice of what is missing included.                                        *)
SummaryFits == summary # <<>> => Fits(summary)

(* summary_compression.go:51: important lines are kept before others: a line   *)
(* is missing only when it does not fit beside those that matter as much.      *)
ImportantFirst ==
  \A l \in ToSet(NormalizeLines(last.merged)) \ ToSet(summary) :
    ~Fits(Append(SelectSeq(summary, LAMBDA k : k.tag # "omitted" /\ LinePriority(k) <= LinePriority(l)), l))

Told == IF messages # <<>> THEN Head(messages).lines ELSE <<>>
(* compact.go:223-225: the history begins with all the last summary said,      *)
(* whatever came before it; but what stood behind a blank line of its timeline *)
(* is gone where there was something to merge it with (compact.go:404-406).    *)
BehindBlank(ls, i) ==
  \E t, b \in 1..i : t < b /\ ls[t].tag = "Key timeline" /\ ls[b] = BlankLine
LatestIsTold ==
  LET new == FormatCompactSummary(last.new)
  IN count > 0 =>
       \A i \in 1..Len(new) :
         \/ new[i].tag \in {"title", "blank"} \/ new[i] \in ToSet(Told)
         \/ count > 1 /\ BehindBlank(new, i)

(* The summaries of earlier compactions stand before those of later ones.      *)
ToldInOrder ==
  \A i, j \in 1..Len(Told) :
    i < j /\ {Told[i].tag, Told[j].tag} \subseteq {"item", "prose"} => Told[i].of <= Told[j].of

(* compact.go:312-315: what a model thought aloud is told only when the        *)
(* compression had dropped the end of its tag before.                          *)
ThoughtsStayOut == (\E l \in ToSet(Told) : l.tag = "thought") => last.omitted

(* compact.go:446-456: the summary does not count as history: what one pure     *)
(* compaction leaves is not compacted again before something new is said, and  *)
(* a summary is never among the messages that stay.                            *)
PureSettles ==
  way = "pure" => /\ \A i \in 2..Len(messages) : messages[i].kind # "summary"
                  /\ count > 0 /\ Len(messages) <= KeepRecent + 1 => ~ShouldCompactPure(messages)

(* What a compaction leaves in the place of a history (compact.go:192-253,     *)
(* 460-503, summary_compression.go:49-105).                                    *)
SummaryIsKept ==
  /\ CompactionTypeOK /\ SummaryFits /\ ImportantFirst /\ LatestIsTold
  /\ ToldInOrder /\ ThoughtsStayOut /\ PureSettles
=============================================================================
