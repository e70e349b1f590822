-------------------------- MODULE MCApprovalBridge --------------------------
(* Small instances of ApprovalBridge for TLC.                                *)
EXTENDS ApprovalBridge

\* one permission prompt; a permission prompt and an edit review
One == {"a1"}
Two == {"a1", "a2"}
FirstIsPermission == {"a1"}

OneClient == {"c1"}
TwoClients == {"c1", "c2"}

DenyOrAlways == {"deny", "always"}
DenyOnly == {"deny"}
AlwaysOnly == {"always"}
Nothing == {}

\* Two clients for one prompt, or two prompts of which the second evicts the first.
OneOfEach == waiter["a2"].pc = "unborn" \/ "c2" \notin streams \cup UNION {posted[a] : a \in Approvals}
PromptSpec == Init /\ [][Next /\ OneOfEach']_vars /\ Fairness
=============================================================================
