SPECIFICATION FairSpec
CONSTANTS
  lore = lore
  recap = recap
  reply = reply
  Callers <- MCCallers
  Keys = {lore, recap, reply}
  Asks <- Mixed
  Urgent = {reply}
  Streams = {"chat"}
  MaxEntries = 2
  Window = 2
CHECK_DEADLOCK FALSE
INVARIANTS
  TypeOK
  AbortedIffUnwatched
  SharedIsLive
  OneBackground
  NeverStranded
PROPERTIES
  QuietBeforeBackground
  Drains
