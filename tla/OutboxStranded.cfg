\* Two workers, no crash, no fault: a lease expires under a slow delivery.
SPECIFICATION Spec
CONSTANTS
  Items = {1}
  Workers = {w1, w2}
  Recipients = {r1}
  ChannelCount <- OneChannel
  Incoherent = {}
  BatchSize = 1
  MaxAttempts = 2
  MaxCrashes = 0
  MaxFaults = 0
  Nobody = Nobody
  w2 = w2
  r1 = r1
  w1 = w1
SYMMETRY Symmetry
INVARIANT AbandonedWhenExhausted
