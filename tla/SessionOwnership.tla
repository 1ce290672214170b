------------------------- MODULE SessionOwnership -------------------------
(***************************************************************************)
(* What the front end and the conversation goroutine promise each other    *)
(* about the session they share (runtime.Session has no lock): it belongs  *)
(* to one of them at a time.  The user hands it over with a prompt; the    *)
(* goroutine extends or compacts the history and hands it back once, with  *)
(* the last event of the turn.  Only its owner touches it.                 *)
(***************************************************************************)
EXTENDS Sequences, Naturals

VARIABLES
  owner,    \* "user" or "loop"
  history   \* the messages of the session

vars == <<owner, history>>

Init == owner = "user" /\ history = <<>>

Submit == owner = "user" /\ owner' = "loop" /\ UNCHANGED history

(* Messages are appended, or the whole history is rewritten by compaction. *)
Extend ==
  /\ owner = "loop" /\ Len(history') = Len(history) + 1
  /\ \A i \in 1..Len(history) : history'[i] = history[i]
  /\ UNCHANGED owner
Rewrite ==
  /\ owner = "loop" /\ history' # <<>> /\ history'[1].role = "system"
  /\ UNCHANGED owner

HandBack == owner = "loop" /\ owner' = "user" /\ UNCHANGED history

(* /clear *)
Clear == owner = "user" /\ history' = <<>> /\ UNCHANGED owner

Next == Submit \/ Extend \/ Rewrite \/ HandBack \/ Clear

Spec == Init /\ [][Next]_vars

(* The user always gets the session back. *)
HandsBack == owner = "loop" ~> owner = "user"
=============================================================================
