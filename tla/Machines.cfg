SPECIFICATION MachinesSpec
CONSTANTS
  Bot = {b1, b2}
  Slots = 2
  MaxUses = 2
  MaxMishaps = 1
INVARIANTS ToolHasItsMachine NothingRunsUnseen
PROPERTIES AsleepInTheEnd
CHECK_DEADLOCK FALSE
