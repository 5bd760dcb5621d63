--------------------------- MODULE MCChatSessions ---------------------------
(* Three requests to one conversation, the third for the other backend; or two *)
(* for the SDK.                                                               *)
EXTENDS ChatSessions, TLC
CONSTANTS r1, r2, r3
MCRequests == {r1, r2, r3}
MCPair == {r1, r3}
MCBackendOf == [r \in Requests |-> IF r = r3 THEN "claude-sdk" ELSE "acp"]
MCTwins == {r1, r2}
MCAllSdk == [r \in Requests |-> "claude-sdk"]
Symmetry == Permutations({r1, r2})
=============================================================================
