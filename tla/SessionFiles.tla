---------------------------- MODULE SessionFiles ----------------------------
(***************************************************************************)
(* Saved sessions, the .json files of internal/runtime/session.go, under   *)
(* the commands that save, load, fork, rename and delete them: /session of *)
(* the terminal interface (internal/tui/model.go) and the slash commands   *)
(* of LoopAdapter (internal/runtime/loop_adapter.go), which                *)
(* HandleSlashCommand gives a new adapter each time.  os.WriteFile         *)
(* truncates before it writes, so a save is two steps, and the process may *)
(* stop, or the write fail, between them; what was saved before is gone    *)
(* with the first.                                                         *)
(*                                                                         *)
(* The content of a session is the number of its last change; what it has  *)
(* cost is the number of its turns.                                        *)
(***************************************************************************)
EXTENDS Naturals, Functions

CONSTANTS
  Ids,         \* session ids
  Commands,    \* the commands used, out of AllCommands
  MaxContents  \* bound: changes of sessions

AllCommands ==
  {"save", "load", "switch", "fork", "rename", "rename_to_itself", "delete", "in_turn", "exit"}

ASSUME SessionFilesAssumption == Commands \subseteq AllCommands /\ MaxContents \in Nat

VARIABLES
  files,      \* the files <id>.json: content, turns, whole or torn, and how many turns there were
  session,    \* loop.Session
  usage,      \* loop.Usage.Turns
  turn,       \* a turn is running
  write,      \* the write in progress and what follows it, or Idle
  contents,   \* the contents given out
  used,       \* ids of sessions there have been
  saved,      \* history: the content last saved under an id, 0 when there is none
  lost        \* history: the ids whose last write has not come to its end, or which
              \* were renamed to themselves

vars == <<files, session, usage, turn, write, contents, used, saved, lost>>

(* turns is Session.TotalTurns; spent is the number of turns behind the    *)
(* messages.                                                               *)
Sessions == [id : Ids, content : Nat, turns : Nat, spent : Nat]
Idle == [then |-> "idle"]
Stopped == [then |-> "stopped"]  \* the process has exited
NewSession(id) == [id |-> id, content |-> 0, turns |-> 0, spent |-> 0]

Init ==
  \E id \in Ids :
    /\ files = <<>> /\ session = NewSession(id) /\ usage = 0 /\ turn = FALSE
    /\ write = Idle /\ contents = 0 /\ used = {id} /\ saved = [i \in Ids |-> 0]
    /\ lost = {}

(* The interface takes commands between turns.  A slash command may come   *)
(* in a turn when its caller lets it: the turn count of its new adapter is *)
(* zero.                                                                   *)
Prompt == write = Idle /\ ~turn
Adapter == write = Idle /\ (~turn \/ "in_turn" \in Commands)

-----------------------------------------------------------------------------
StartTurn ==
  /\ Prompt /\ contents < MaxContents
  /\ turn' = TRUE
  /\ UNCHANGED <<files, session, usage, write, contents, used, saved, lost>>

EndTurn ==
  /\ turn /\ write # Stopped /\ contents < MaxContents
  /\ turn' = FALSE /\ contents' = contents + 1 /\ usage' = usage + 1
  /\ session' = [session EXCEPT !.content = contents', !.spent = @ + 1]
  /\ UNCHANGED <<files, write, used, saved, lost>>

Torn(id) == [session |-> NewSession(id), whole |-> FALSE]
Freed(then) == IF then = "exit" THEN Stopped ELSE Idle

(* SaveSession truncates the file, unless there is no directory or file to *)
(* be had; then tells what the caller does once it is written.             *)
Truncate(s, then, old) ==
  \/ /\ files' = [i \in DOMAIN files \cup {s.id} |-> IF i = s.id THEN Torn(i) ELSE files[i]]
     /\ write' = [then |-> then, session |-> s, old |-> old]
     /\ lost' = lost \cup {s.id}
     /\ UNCHANGED saved
  \/ write' = Freed(then) /\ UNCHANGED <<files, saved, lost>>

(* /session save: the session takes the name, and the usage of the loop. *)
SaveAs(name) ==
  /\ "save" \in Commands /\ Prompt
  /\ session' = [session EXCEPT !.id = name, !.turns = usage]
  /\ Truncate(session', "stay", name)
  /\ used' = used \cup {name}
  /\ UNCHANGED <<usage, turn, contents>>

(* Fork: the copy is saved, then becomes the session. *)
Fork(id) ==
  /\ "fork" \in Commands /\ Adapter /\ id \notin used
  /\ Truncate([session EXCEPT !.id = id], "switch", id)
  /\ used' = used \cup {id}
  /\ UNCHANGED <<session, usage, turn, contents>>

(* RenameSession: the id changes first, then the session is saved, then    *)
(* the old file is removed.                                                *)
Rename(name) ==
  /\ "rename" \in Commands /\ Adapter
  /\ name # session.id \/ "rename_to_itself" \in Commands
  /\ session' = [session EXCEPT !.id = name]
  /\ Truncate(session', "remove", session.id)
  /\ used' = used \cup {name}
  /\ UNCHANGED <<usage, turn, contents>>

(* maybeSaveSession, at the end of the interface and, in a goroutine of    *)
(* its own, on SIGTERM, so also in a turn: the usage is not copied.        *)
Exit ==
  /\ "exit" \in Commands /\ write = Idle
  /\ Truncate(session, "exit", session.id)
  /\ UNCHANGED <<session, usage, turn, contents, used>>

Without(i) == Restrict(files, DOMAIN files \ {i})

(* The old file is removed as far as that is possible: nobody hears of it  *)
(* when it is not.                                                         *)
Written ==
  /\ write \notin {Idle, Stopped}
  /\ \E removed \in {{}, IF write.then = "remove" THEN {write.old} ELSE {}} :
       LET id == write.session.id IN
       /\ files' = Restrict([files EXCEPT ![id] = [session |-> write.session, whole |-> TRUE]],
                            DOMAIN files \ removed)
       /\ saved' = [i \in Ids |-> IF i = id THEN write.session.content + 1
                                  ELSE IF i \in removed THEN 0 ELSE saved[i]]
       /\ lost' = (lost \ ({id} \cup removed)) \cup ({id} \cap removed)
  /\ session' = IF write.then = "switch" THEN write.session ELSE session
  /\ write' = Freed(write.then)
  /\ UNCHANGED <<usage, turn, contents, used>>

(* The write fails: the command returns the error, the file stays torn. *)
WriteFails ==
  /\ write \notin {Idle, Stopped}
  /\ write' = Freed(write.then)
  /\ UNCHANGED <<files, session, usage, turn, contents, used, saved, lost>>

(* Mutant: the file of the current session is removed. *)
MutDelete(id) ==
  /\ "delete" \in Commands /\ Adapter /\ id \in DOMAIN files
  /\ files' = Without(session.id)
  /\ saved' = [saved EXCEPT ![id] = 0] /\ lost' = lost \ {id}
  /\ UNCHANGED <<session, usage, turn, write, contents, used>>

Delete(id) ==
  /\ "delete" \in Commands /\ Adapter /\ id \in DOMAIN files
  /\ files' = Without(id)
  /\ saved' = [saved EXCEPT ![id] = 0] /\ lost' = lost \ {id}
  /\ UNCHANGED <<session, usage, turn, write, contents, used>>

(* A torn file does not parse, and the session stays what it is. *)
Loadable(id) == id \in DOMAIN files /\ files[id].whole

(* /session load restores the usage only of a session with turns. *)
Load(id) ==
  /\ "load" \in Commands /\ Prompt /\ Loadable(id)
  /\ session' = files[id].session
  /\ usage' = IF session'.turns > 0 THEN session'.turns ELSE usage
  /\ UNCHANGED <<files, turn, write, contents, used, saved, lost>>

(* /session switch and /resume *)
Switch(id) ==
  /\ "switch" \in Commands /\ Adapter /\ Loadable(id)
  /\ session' = files[id].session
  /\ usage' = session'.turns
  /\ UNCHANGED <<files, turn, write, contents, used, saved, lost>>

(* The process stops anywhere, and another one starts. *)
Restart(id) ==
  /\ id \notin used
  /\ session' = NewSession(id) /\ usage' = 0 /\ turn' = FALSE /\ write' = Idle
  /\ used' = used \cup {id}
  /\ UNCHANGED <<files, contents, saved, lost>>

Next ==
  \/ StartTurn \/ EndTurn \/ Written \/ WriteFails \/ Exit
  \/ \E id \in Ids : \/ SaveAs(id) \/ Fork(id) \/ Rename(id) \/ Delete(id)
                     \/ Load(id) \/ Switch(id) \/ Restart(id)

Spec == Init /\ [][Next]_vars

-----------------------------------------------------------------------------
(* Properties. *)

TypeOK ==
  /\ DOMAIN files \subseteq used
  /\ \A i \in DOMAIN files : /\ files[i].session \in Sessions /\ files[i].session.id = i
                             /\ files[i].whole \in BOOLEAN
  /\ session \in Sessions /\ session.id \in used /\ usage \in 0..MaxContents
  /\ turn \in BOOLEAN /\ contents \in 0..MaxContents /\ used \subseteq Ids
  /\ write \in {Idle, Stopped}
     \/ (/\ write.then \in {"stay", "switch", "remove", "exit"}
         /\ write.session.id \in DOMAIN files /\ write.old \in used)
  /\ saved \in [Ids -> 0..(MaxContents + 1)] /\ lost \subseteq Ids

(* A save is lost only with the write that was to replace it, when this    *)
(* fails or the process stops in it (session.go:77), or when the session   *)
(* is renamed to the name it has (loop_adapter.go:226-236), and a load     *)
(* then finds nothing. Under every other id a load finds what was last     *)
(* saved there, and nothing where the file was removed: across forks,      *)
(* renames over other sessions, refused and failed writes and restarts.    *)
SavedIsFound ==
  \A i \in Ids :
    IF i \in lost THEN ~Loadable(i)
    ELSE /\ saved[i] # 0 <=> Loadable(i)
         /\ Loadable(i) => files[i].session.content + 1 = saved[i]

(* The usage saved with a session is the usage of its turns.               *)
(* (session.go:28: "Persisted so cost history survives resume";            *)
(* conversation.go:1082: "Usage tracker state is restored from persisted   *)
(* session data.")                                                         *)
UsageOfItsTurns == \A i \in Ids : Loadable(i) => files[i].session.turns = files[i].session.spent

(* A turn that has ended is on disk.  (README.md:117: the runtime          *)
(* "persists every turn as JSONL events".)                                 *)
EachTurnIsSaved ==
  [][turn /\ ~turn' /\ session'.id = session.id =>
       Loadable(session.id)' /\ files'[session.id].session.content = session'.content]_vars

(* loop_adapter.go:145: "Mutating - rejected during active turn." *)
TurnKeepsItsSession == [][turn => session'.id = session.id \/ ~turn']_vars
=============================================================================
