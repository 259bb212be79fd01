----------------------------- MODULE MCToolGate -----------------------------
\* One tool of each kind: shell is unattended-tightened, tainted and risky,
\* read_file pinned and client-fulfilled, purchase pinned and looked at ahead,
\* ask_josh the question.
EXTENDS ToolGate

MCTool == {"shell", "read_file", "purchase", "ask_josh"}
MCDefault == [t \in MCTool |-> IF t = "ask_josh" THEN "allow" ELSE "ask"]
=============================================================================
