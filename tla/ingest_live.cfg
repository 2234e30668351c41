SPECIFICATION FairSpec
CONSTANTS
  a = a
  b = b
  c = c
  x = x
  ka = ka
  kb = kb
  kc = kc
  Hooks = {h1, h2}
  Lines <- Rows
  Keys <- MCKeys
  KeyOf <- RowKey
  NoKey = NoKey
  Refused = {b}
  Oversized = {c}
  Sessions = {s1}
  NoSession = NoSession
  Payloads = {s1}
  NoLine = NoLine
  NoCursor = NoCursor
  BatchSize = 1
  Attempts = 1
  MaxLines = 2
  MaxRewrites = 0
  MaxFaults = 1
PROPERTIES EventuallyStored
CHECK_DEADLOCK FALSE
