SPECIFICATION MCSpec
CONSTANTS
  activation_height = 0
  epoch_blocks = 3
  window_blocks = 1
  commit_maturity_blocks = 1
  commit_ttl_blocks = 2
  lease_blocks = 4
  cooldown_blocks = 3
  U32Max = 60
  NameIds = {a}
  Digest <- MCDigest
  None = None
  Uas = {o1}
  Owners = {o1}
  Txids = {x}
  Branches = {x}
  Hashes <- MCHashes
  Fields <- MCFields
  Commitments <- MCCommitments
  Proofs = {o1}
  ActivationParentHash = genesis
  VerifyReveal <- MCVerifyReveal
  VerifyRefresh <- MCVerifyRefresh
  MaxTxs = 1
  MaxReorg = 20
  MaxHeight = 4
  requested = a
  Noise = {"nothing", "application", "carrier", "route"}
  CommitNoise = {"nothing", "application"}
INVARIANTS AcquisitionsAgree SoleCandidate EffectsKept PositionsLocate
CHECK_DEADLOCK FALSE
