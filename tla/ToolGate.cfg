SPECIFICATION Spec
CONSTANTS
  Tool <- MCTool
  Fulfilled = {"read_file"}
  Prechecked = {"purchase"}
  Question = {"ask_josh"}
  Unattended = {"shell", "read_file", "purchase"}
  TaintSet = {"shell", "ask_josh"}
  Risky = {"shell", "read_file"}
  Default <- MCDefault
  MaxCalls = 2
  MaxEdits = 2
INVARIANTS TaintIsAsked DangerousIsHeld NeverIsFinal
CHECK_DEADLOCK FALSE
