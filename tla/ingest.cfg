SPECIFICATION Spec
CONSTANTS
  a = a
  b = b
  c = c
  x = x
  ka = ka
  kb = kb
  kc = kc
  Hooks = {h1, h2}
  Lines <- Messages
  Keys <- MCKeys
  KeyOf <- MessageKey
  NoKey = NoKey
  Refused = {}
  Oversized = {c}
  Sessions = {s1}
  NoSession = NoSession
  Payloads = {s1}
  NoLine = NoLine
  NoCursor = NoCursor
  BatchSize = 1
  Attempts = 2
  MaxLines = 2
  MaxRewrites = 1
  MaxFaults = 1
SYMMETRY HookSymmetry
INVARIANTS NothingSkipped DeliveredInOrder
CHECK_DEADLOCK FALSE
