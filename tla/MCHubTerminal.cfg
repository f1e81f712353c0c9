SPECIFICATION Spec
CONSTANTS
  first = first
  second = second
  left = left
  right = right
  Dispatches = {first}
  Processes = {left}
  Capable = {first}
  Window = 1
  Outcomes = {"awaiting_review", "failed"}
  Patience = 2
  MaxFaults = 0
PROPERTY TerminalStays
