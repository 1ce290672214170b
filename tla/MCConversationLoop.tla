------------------------ MODULE MCConversationLoop ------------------------
(* Small instances of ConversationLoop: two inputs of bash that the rules  *)
(* tell apart, and ask_user.                                               *)
EXTENDS ConversationLoop

BashKinds == {"ls", "rm"}
AskKinds == {"ls", "question"}
MCToolOf == [k \in Kinds |-> IF k = "question" THEN "ask_user" ELSE "bash"]
(* "ls" has no rule, "rm" an ask rule, questions are allowed. *)
MCRuleOf == [k \in Kinds |-> CASE k = "ls" -> "none" [] k = "rm" -> "ask"
                                [] OTHER -> "allow"]

(* A turn ends, and the user gets the prompt back (conversation.go:589).    *)
TurnsEnd == TurnEnds /\ PromptReturns
=============================================================================
