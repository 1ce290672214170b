---------------------------- MODULE RemoteCalls ----------------------------
(***************************************************************************)
(* What the callers of an MCP transport may expect.  A request that was    *)
(* issued is executed by the server at most once; its caller gets either   *)
(* the server's reply to that very request, or an error, once.  An error   *)
(* says nothing about the execution: a request whose caller gave up may    *)
(* have been executed, or may be executed later.                           *)
(***************************************************************************)
CONSTANTS
  Calls,    \* requests and notifications, by id
  Notices,  \* the notifications among them, which have no reply
  NoCall    \* not an id

VARIABLES
  outcome,   \* [Calls -> {"idle", "pending", "answered", "failed", "sent"}]
  answer,    \* the reply a caller got, by its id, or NoCall
  executed   \* requests the server has executed

Init ==
  /\ outcome = [c \in Calls |-> "idle"]
  /\ answer = [c \in Calls |-> NoCall]
  /\ executed = {}

Issue(c) ==
  /\ outcome[c] = "idle"
  /\ outcome' = [outcome EXCEPT ![c] = "pending"]
  /\ UNCHANGED <<answer, executed>>

Execute(c) ==
  /\ c \notin executed \cup Notices
  /\ outcome[c] # "idle"
  /\ executed' = executed \cup {c}
  /\ UNCHANGED <<outcome, answer>>

Return(c) ==
  /\ outcome[c] = "pending"
  /\ \/ /\ c \in executed
        /\ outcome' = [outcome EXCEPT ![c] = "answered"]
        /\ answer' = [answer EXCEPT ![c] = c]
     \/ /\ \/ c \in Notices /\ outcome' = [outcome EXCEPT ![c] = "sent"]
           \/ outcome' = [outcome EXCEPT ![c] = "failed"]
        /\ UNCHANGED answer
  /\ UNCHANGED executed

Next == \E c \in Calls : Issue(c) \/ Execute(c) \/ Return(c)

Spec == Init /\ [][Next]_<<outcome, answer, executed>>
=============================================================================
