SPECIFICATION Spec
CONSTANTS
  first = first
  second = second
  left = left
  right = right
  Dispatches = {first}
  Processes = {left, right}
  Capable = {first}
  Window = 1
  Outcomes = {"awaiting_review", "failed"}
  Patience = 2
  MaxFaults = 1
INVARIANT LeasesSettle
PROPERTY ExecutedOnce
