CONSTANTS
  s1 = s1
  s2 = s2
  s3 = s3
  s4 = s4
  Commands = {s1, s2, s3, s4}
  Kind <- KindOf
  Target <- TargetOf
  Recorder = "recorder"
  Others <- OtherHooks
  h1 = h1
  Primes = {h1}
  Legs <- TwoLegs
  Deadline = 4
  FinishBy = 5
  KillAt = 6
SYMMETRY SetupSymmetry
SPECIFICATION Spec
CONSTRAINT Apart
INVARIANT HookHasConfig OthersKept KilledOnlyLate StatusTells
PROPERTY SetupAtomic
CHECK_DEADLOCK FALSE
