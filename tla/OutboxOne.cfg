\* One worker, one item of two channels, two addresses each, and one item whose
\* source is incoherent.
SPECIFICATION FairSpec
CONSTANTS
  Items = {1, 2}
  Workers = {w1}
  Recipients = {r1, r2}
  ChannelCount <- TwoChannels
  Incoherent = {2}
  BatchSize = 1
  MaxAttempts = 2
  MaxCrashes = 1
  MaxFaults = 1
  Nobody = Nobody
  r1 = r1
  r2 = r2
  w1 = w1
INVARIANTS
  RepeatedOnlyIfInterrupted
  AbandonedWhenExhausted
  CompletedOwesNothing
  DeliveredWasAccepted
PROPERTY EventuallyEnded
