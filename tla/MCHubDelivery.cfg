SPECIFICATION FairSpec
CONSTANTS
  first = first
  second = second
  left = left
  right = right
  Dispatches = {first, second}
  Processes = {left}
  Capable = {first}
  Window = 2
  Outcomes = {"awaiting_review", "failed"}
  Patience = 2
  MaxFaults = 1
INVARIANTS
  TypeOK
  ReportsTruthful
  CandidateFirst
PROPERTY AnsweredWithoutFaults
