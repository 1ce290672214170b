---------------------------- MODULE FileWriters ----------------------------
(***************************************************************************)
(* What the branch locks are for: on a branch, a file has at most one lane *)
(* that may write it.  A lane takes files nobody has, and gives back all   *)
(* it has at once.                                                         *)
(***************************************************************************)
CONSTANTS
  Lanes,   \* the lanes
  Places,  \* pairs of a branch and a file
  NoLane   \* not a lane

VARIABLE writer  \* the lane that may write a file on a branch, or NoLane

Init == writer = [p \in Places |-> NoLane]

Take(l) ==
  \E S \in SUBSET Places :
    /\ \A p \in S : writer[p] = NoLane
    /\ writer' = [p \in Places |-> IF p \in S THEN l ELSE writer[p]]

GiveBack(l) ==
  writer' = [p \in Places |-> IF writer[p] = l THEN NoLane ELSE writer[p]]

Next == \E l \in Lanes : Take(l) \/ GiveBack(l)

Spec == Init /\ [][Next]_writer
=============================================================================
