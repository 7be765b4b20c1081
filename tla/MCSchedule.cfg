SPECIFICATION SSpec
CONSTANTS
  activation_height = 3
  epoch_blocks = 5
  window_blocks = 2
  commit_maturity_blocks = 2
  commit_ttl_blocks = 4
  lease_blocks = 6
  cooldown_blocks = 5
  U32Max = 26
  early = early
  middle = middle
  late = late
  NameIds = {early, middle, late}
  Digest <- MCDigest
INVARIANTS ScanCoversExactly CommitPrecedesWindow CommitServesOneEpoch RenewalBeforeExpiry
CHECK_DEADLOCK FALSE
