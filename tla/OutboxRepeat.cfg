\* One worker, no crash: the completion of a delivered item fails.
SPECIFICATION Spec
CONSTANTS
  Items = {1}
  Workers = {w1}
  Recipients = {r1, r2}
  ChannelCount <- OneChannel
  Incoherent = {}
  BatchSize = 1
  MaxAttempts = 2
  MaxCrashes = 0
  MaxFaults = 1
  Nobody = Nobody
  r1 = r1
  r2 = r2
  w1 = w1
SYMMETRY Symmetry
INVARIANT RepeatedOnlyAfterCrash
